---------------------------- MODULE Spec2Model ----------------------------
(***************************************************************************)
(* A model of the execution core of TPL: the sorter (top-k heap, serial    *)
(* sort, parallel merge sort), the aggregation hash table's batch path,    *)
(* the join hash table and the bytecode interpreter's call sequencing.     *)
(* Every component has its own specification over its own variables; the   *)
(* variables of the other components stay at their initial values.         *)
(***************************************************************************)
EXTENDS Integers, Sequences, FiniteSets, TLC

(***************************************************************************)
(* Bounds of the model.                                                    *)
(***************************************************************************)
\* Sort keys are 1..MaxKey.
MaxKey == 2
\* Number of thread-local sorters in the thread state container.
NumLocalSorters == 3
\* Total number of tuple buffers that are allocated in one behaviour.
MaxTuples == 4
\* Largest top-k argument of the top-k heap.
MaxTopK == 3
\* Largest top-k argument of SortTopKParallel.
MaxParallelTopK == 2
\* Number of AllocInputTupleTopK calls in one top-k behaviour.
MaxTopKInserts == 5
\* Scaled-down stand-in for the threshold below which SortParallel sorts
\* serially (sorter.cpp:176 reads it; its value is set outside src/).
kDefaultMinTuplesForParallelSort == 3
\* Grouping keys of the aggregation input are 1..MaxAggKey.
MaxAggKey == 4
\* Largest number of rows in one batch given to ProcessBatch.
MaxBatch == 3
\* Total number of rows given to ProcessBatch in one behaviour.
MaxAggRows == 4
\* Join keys are 1..MaxJoinKey.
MaxJoinKey == 4
\* Number of AllocInputTuple calls on the join hash table in one behaviour.
MaxJoinTuples == 3
\* Number of functions of a bytecode module; function f calls function f + 1,
\* so this is also the deepest nesting of calls.
NumFunctions == 3
\* Largest number of parameters of a function.
MaxParams == 2
\* Integer arguments and immediates are 0..MaxVal.
MaxVal == 2
\* Largest number of lines on standard input, and in a source file.
MaxLines == 5
\* Number of std::getline calls of the REPL in one behaviour.
MaxReads == 6
\* A mask is over n <= MaxN positions.
MaxN == 6
\* Scaled-down stand-in for the 64 bits of a bit-vector word, which is also
\* the number of elements one turn of the bit/byte main loops handles.
WordBits == 4
\* Scaled-down stand-in for the 8 bytes one turn of the byte-to-selection
\* main loop handles.
Lanes == 2
\* Number of conversions applied to one mask.
MaxHops == 3
\* Number of elements of the vectors given to a vector operation.
MaxCount == 2
\* Number of InsertPartitioned calls on one table.
MaxPartInserts == 5
\* flush_threshold_ of the aggregation table, which the constructor derives
\* from the L2 cache size (scaled down so that flushes happen).
flush_threshold_ == 2
\* Largest number of arguments of a builtin call.
MaxArgs == 4

VARIABLES
    \* ---- sql::Sorter (sorter 0 is the main sorter, 1..NumLocalSorters the
    \* thread-local ones) ----
    tuples_,          \* sorter -> sequence of tuple pointers
    sorted_,          \* sorter -> BOOLEAN
    tuple_storage_,   \* sorter -> set of tuple buffers held in its chunked vector
    owned_tuples_,    \* sorter -> set of tuple buffers adopted from other sorters
    num_allocs,       \* sorter -> buffers ever appended (names the next buffer)
    top_k,            \* the top-k argument the caller uses in this behaviour
    topk_pending,     \* AllocInputTupleTopK was called, ...Finish not yet
    inserted,         \* history: sorter -> set of tuples ever inserted
    last_call         \* history: the last sorter call and what it started from

sorterVars == <<tuples_, sorted_, tuple_storage_, owned_tuples_, num_allocs,
                top_k, topk_pending, inserted, last_call>>

VARIABLES
    \* ---- sql::AggregationHashTable ----
    agg_entries_,     \* entries_: the chunked vector of HashTableEntry; an
                      \* entry is named by its 1-based position, 0 is nullptr
    hash_table_,      \* hash_table_: [directory, num_elems]
    max_fill_,        \* max_fill_
    partition_heads_, \* partition -> first entry of its overflow list; <<>>
                      \* while the array is not allocated
    partition_tails_, \* partition -> last entry of its overflow list
    agg_rows,         \* history: key -> number of input rows seen with it
    agg_last          \* history: the last InsertPartitioned call

aggVars == <<agg_entries_, hash_table_, max_fill_, partition_heads_,
             partition_tails_, agg_rows, agg_last>>

VARIABLES
    \* ---- sql::JoinHashTable ----
    join_entries_,        \* entries_: the chunked vector of HashTableEntry
    head_,                \* head_: the head of the lazy insertion list
    generic_hash_table_,  \* generic_hash_table_: [directory, num_elems]
    num_elems_,           \* num_elems_
    built_,               \* built_
    lookup                \* the JoinHashTable::Iterator of the running probe
                          \* (next_, hash_), its probe key, and as history
                          \* the entries NextMatch returned so far

joinVars == <<join_entries_, head_, generic_hash_table_, num_elems_, built_,
              lookup>>

VARIABLES
    \* ---- vm::VM ----
    module_,      \* module_: [functions, code, instrs, starts]; code is the
                  \* bytecode stream, instrs the instructions it was emitted
                  \* from, starts the byte offsets at which they start
    frames,       \* the activations of Interpret, innermost last: each with
                  \* its function, its ip (a byte offset into the stream),
                  \* its frame's locals, and as history the call site
    vm_status,    \* "idle", "running" or "done"
    log_errors,   \* number of LOG_ERROR("Division by zero error!") so far
    heap_frames,  \* number of frame buffers from MallocAligned not yet freed
    vm_last       \* history: the bytecode executed last

vmVars == <<module_, frames, vm_status, log_errors, heap_frames, vm_last>>

VARIABLES
    \* ---- the tpl executable (tpl.cpp) ----
    tpl_args,     \* [argc, file]: the argument count, and the source of the
                  \* file argv[1] names ("unreadable" if it cannot be read)
    tpl_stdin,    \* the lines of standard input not yet read
    tpl_input,    \* RunRepl's input, as the sequence of the lines appended
    tpl_pc,       \* "main", "repl" (at the prompt) or "exited"
    tpl_exit,     \* the exit code of the process once it has exited
    tpl_read,     \* history: the lines std::getline has yielded
    tpl_runs      \* history: the calls of CompileAndRun, each with its
                  \* source, its outcome and whether diagnostics were printed

tplVars == <<tpl_args, tpl_stdin, tpl_input, tpl_pc, tpl_exit, tpl_read,
             tpl_runs>>

VARIABLES
    \* ---- util::VectorUtil: a mask and its representation ----
    mask_in,      \* [n, set]: the number of positions and the positions set
    mask_rep,     \* [form, data]: the mask as a "bit", "byte" or "sel" vector
    mask_hops     \* number of conversions applied so far

maskVars == <<mask_in, mask_rep, mask_hops>>

VARIABLES
    \* ---- the vector operators: one call ----
    vop_in,       \* the arguments of the call
    vop_out       \* [done, ...]: what the call left in its result argument

vopVars == <<vop_in, vop_out>>

VARIABLES
    \* ---- sema::Sema: the check of one builtin call ----
    sema_call,    \* [builtin, args]: the name called and its arguments' types
    sema_out      \* [done, ...]: the call's type, the errors reported, the
                  \* argument indexes read

semaVars == <<sema_call, sema_out>>

vars == <<sorterVars, aggVars, joinVars, vmVars, tplVars, maskVars, vopVars, semaVars>>

\* Everything but the sorter, the aggregation table, the join table, the VM,
\* the executable, the mask conversions, the vector operators, the checker.
nonSorterVars == <<aggVars, joinVars, vmVars, tplVars, maskVars, vopVars, semaVars>>
nonAggVars == <<sorterVars, joinVars, vmVars, tplVars, maskVars, vopVars, semaVars>>
nonJoinVars == <<sorterVars, aggVars, vmVars, tplVars, maskVars, vopVars, semaVars>>
nonVmVars == <<sorterVars, aggVars, joinVars, tplVars, maskVars, vopVars, semaVars>>
nonTplVars == <<sorterVars, aggVars, joinVars, vmVars, maskVars, vopVars, semaVars>>
nonMaskVars == <<sorterVars, aggVars, joinVars, vmVars, tplVars, vopVars, semaVars>>
nonVopVars == <<sorterVars, aggVars, joinVars, vmVars, tplVars, maskVars, semaVars>>
nonSemaVars == <<sorterVars, aggVars, joinVars, vmVars, tplVars, maskVars, vopVars>>

(***************************************************************************)
(* Helpers on sequences.                                                   *)
(***************************************************************************)
Min2(a, b) == IF a < b THEN a ELSE b

Range(s) == {s[i] : i \in 1..Len(s)}

RECURSIVE SumOver(_, _)
SumOver(f, S) ==
    IF S = {} THEN 0
    ELSE LET x == CHOOSE y \in S : TRUE IN f[x] + SumOver(f, S \ {x})

\* At(t, i): the element at 0-based position i, as the code indexes.
At(t, i) == t[i + 1]

Swap(t, i, j) == [t EXCEPT ![i + 1] = t[j + 1], ![j + 1] = t[i + 1]]

(***************************************************************************)
(* sql::GenericHashTable: a directory of bucket chains.  Entries live in   *)
(* the owning table's chunked vector and are named by their 1-based        *)
(* position there.                                                         *)
(***************************************************************************)
\* The null HashTableEntry pointer.
nullentry == 0

\* GenericHashTable::SetSize: a fresh directory of new_size empty buckets.
SetSize(new_size) ==
    [directory |-> [slot \in 0..(new_size - 1) |-> nullentry], num_elems |-> 0]

capacity(ht) == Cardinality(DOMAIN ht.directory)

\* GenericHashTable::FindChainHead: the head of the chain of hash's bucket.
FindChainHead(ht, hash) == ht.directory[hash % capacity(ht)]

\* GenericHashTable::Insert<false>(entry, entry->hash) for entry e of the
\* table T = [entries, ht, ...]: e is pushed onto the front of its chain.
HashTableInsert(T, e) ==
    LET slot == T.entries[e].hash % capacity(T.ht)
    IN  [T EXCEPT !.entries[e].next = T.ht.directory[slot],
                  !.ht.directory[slot] = e,
                  !.ht.num_elems = @ + 1]

\* Inserts entries e, e + 1, ... of the chunked vector, in that order.
RECURSIVE InsertEntriesFrom(_, _)
InsertEntriesFrom(T, e) ==
    IF e > Len(T.entries) THEN T
    ELSE InsertEntriesFrom(HashTableInsert(T, e), e + 1)

(***************************************************************************)
(* The components as their constructors leave them.                        *)
(***************************************************************************)
\* The directory size an aggregation table starts with (scaled down so
\* that bucket collisions and Grow happen within a few rows).
kDefaultInitialTableSize == 2

\* std::llround(capacity * load_factor) for the load factor one half.
MaxFill(cap) == (cap + 1) \div 2

AggKeys == 1..MaxAggKey

\* AggregationHashTable::AggregationHashTable
AggInit ==
    /\ agg_entries_ = <<>>
    /\ hash_table_ = SetSize(kDefaultInitialTableSize)
    /\ max_fill_ = MaxFill(kDefaultInitialTableSize)
    /\ partition_heads_ = <<>>
    /\ partition_tails_ = <<>>
    /\ agg_rows = [k \in AggKeys |-> 0]
    /\ agg_last = [op |-> "none", num_elements |-> 0]

JoinKeys == 1..MaxJoinKey

\* No probe is running.
NoLookup == [open |-> FALSE, next_ |-> nullentry, hash_ |-> 0, probe |-> 0,
             matches |-> <<>>, exhausted |-> FALSE]

\* JoinHashTable::JoinHashTable
JoinInit ==
    /\ join_entries_ = <<>>
    /\ head_ = [next |-> nullentry]
    /\ generic_hash_table_ = SetSize(0)
    /\ num_elems_ = 0
    /\ built_ = FALSE
    /\ lookup = NoLookup

\* No bytecode has been executed.
NoStep == [op |-> "none", instr |-> 0, zero |-> FALSE, dest |-> 0,
           locals |-> <<>>, errors |-> 0, site |-> [instr |-> 0, locals |-> <<>>]]

\* No module is loaded and no function invoked.
VMIdle ==
    /\ module_ = [functions |-> <<>>, code |-> <<>>, instrs |-> <<>>,
                  starts |-> <<>>]
    /\ frames = <<>>
    /\ vm_status = "idle"
    /\ log_errors = 0
    /\ heap_frames = 0
    /\ vm_last = NoStep

\* The executable has not been started.
TplIdle ==
    /\ tpl_args = [argc |-> 0, file |-> <<>>]
    /\ tpl_stdin = <<>>
    /\ tpl_input = <<>>
    /\ tpl_pc = "idle"
    /\ tpl_exit = -1
    /\ tpl_read = <<>>
    /\ tpl_runs = <<>>

\* No mask is being converted.
MaskIdle ==
    /\ mask_in = [n |-> 0, set |-> {}, form |-> "none"]
    /\ mask_rep = [form |-> "none", data |-> <<>>]
    /\ mask_hops = 0

\* No vector operator is being called.
VopIdle ==
    /\ vop_in = [op |-> "none"]
    /\ vop_out = [done |-> FALSE]

\* No builtin call is being checked.
SemaIdle ==
    /\ sema_call = [builtin |-> "none", args |-> <<>>]
    /\ sema_out = [done |-> FALSE]

\* The components outside the execution core, idle.
RestIdle == TplIdle /\ MaskIdle /\ VopIdle /\ SemaIdle

\* While the sorter runs, the other components stay as constructed.
OthersIdle == AggInit /\ JoinInit /\ VMIdle /\ RestIdle

(***************************************************************************)
(* sql::Sorter                                                             *)
(***************************************************************************)
Keys == 1..MaxKey
MainSorter == 0
LocalSorters == 1..NumLocalSorters
Sorters == {MainSorter} \cup LocalSorters

\* A tuple pointer: the buffer <<sorter, n>> (the n-th buffer appended to
\* that sorter's tuple storage) and the sort key the client wrote into it.
MkTuple(s, n, k) == [key |-> k, buf |-> <<s, n>>]
nullptr == [key |-> 0, buf |-> <<>>]

\* The client's comparison function: negative, zero or positive.
cmp_fn(l, r) == l.key - r.key

\* The 'compare' lambdas of BuildHeap, Sort and SortParallel.
Compare(l, r) == cmp_fn(l, r) < 0

IsSortedSeq(t) == \A i \in 1..(Len(t) - 1) : ~Compare(t[i + 1], t[i])

IsMaxHeap(t) ==
    \A i \in 0..(Len(t) - 1) :
        /\ (2 * i + 1 < Len(t) => ~Compare(At(t, i), At(t, 2 * i + 1)))
        /\ (2 * i + 2 < Len(t) => ~Compare(At(t, i), At(t, 2 * i + 2)))

\* All orders in which the positions I of a pointer list can be arranged.
RECURSIVE Arrangements(_)
Arrangements(I) ==
    IF I = {} THEN {<<>>}
    ELSE UNION {{<<i>> \o r : r \in Arrangements(I \ {i})} : i \in I}

\* The arrangements of the positions I of t that are ordered under compare.
RECURSIVE SortedArrangements(_, _)
SortedArrangements(t, I) ==
    IF I = {} THEN {<<>>}
    ELSE UNION {{<<i>> \o r : r \in SortedArrangements(t, I \ {i})} :
                i \in {j \in I : \A z \in I : ~Compare(t[z], t[j])}}

Permute(t, p) == [i \in 1..Len(t) |-> t[p[i]]]

\* ips4o::sort(begin, end, compare): some permutation of the input that is
\* ordered under compare (the sort is not stable: ties land in any order).
ips4o_sort(t) == {Permute(t, p) : p \in SortedArrangements(t, 1..Len(t))}

\* std::make_heap(begin, end, compare): some permutation that is a max-heap.
std_make_heap(t) ==
    {h \in {Permute(t, p) : p \in Arrangements(1..Len(t))} : IsMaxHeap(h)}

\* Sorter::BuildHeap
BuildHeap(t) == std_make_heap(t)

\* Sorter::HeapSiftDown: the loop, from position idx with the saved top.
RECURSIVE HeapSiftDownLoop(_, _, _)
HeapSiftDownLoop(t, idx, top) ==
    LET size == Len(t)
        first == (2 * idx) + 1
    IN  IF first >= size THEN [t EXCEPT ![idx + 1] = top]
        ELSE LET child == IF first + 1 < size
                             /\ cmp_fn(At(t, first), At(t, first + 1)) < 0
                          THEN first + 1 ELSE first
             IN  IF cmp_fn(top, At(t, child)) >= 0
                 THEN [t EXCEPT ![idx + 1] = top]
                 ELSE HeapSiftDownLoop(Swap(t, idx, child), child, top)

HeapSiftDown(t) == HeapSiftDownLoop(t, 0, At(t, 0))

\* Mutant of BelongsInTopK: the comparison the wrong way round.
BelongsInTopK_Reversed(last_insert, heap_top) == cmp_fn(last_insert, heap_top) >= 0

\* Whether the last insertion replaces the heap top (sorter.cpp:58).
BelongsInTopK(last_insert, heap_top) == cmp_fn(last_insert, heap_top) <= 0

\* Mutant of TopKFinishResults: a tuple that does not belong in the top k
\* stays at the end of the pointer list.
TopKFinishResults_NoPop(t, k) ==
    IF Len(t) < k THEN {t}
    ELSE IF Len(t) = k THEN BuildHeap(t)
    ELSE LET last_insert == t[Len(t)]
             popped == SubSeq(t, 1, Len(t) - 1)
             heap_top == popped[1]
         IN  IF BelongsInTopK(last_insert, heap_top)
             THEN {HeapSiftDown([popped EXCEPT ![1] = last_insert])}
             ELSE {t}

\* Sorter::AllocInputTupleTopKFinish: the pointer lists it can leave.
TopKFinishResults(t, k) ==
    IF Len(t) < k THEN {t}
    ELSE IF Len(t) = k THEN BuildHeap(t)
    ELSE LET last_insert == t[Len(t)]
             popped == SubSeq(t, 1, Len(t) - 1)
             heap_top == popped[1]
         IN  IF BelongsInTopK(last_insert, heap_top)
             THEN {HeapSiftDown([popped EXCEPT ![1] = last_insert])}
             ELSE {popped}

\* Mutant of SortResults: no early exit for a sorter that is already sorted.
SortResults_NoEarlyExit(t, s) ==
    IF t = <<>> THEN {<<t, s>>}
    ELSE {<<r, TRUE>> : r \in ips4o_sort(t)}

\* Sorter::Sort on a sorter with pointer list t and flag s: the
\* <<pointer list, flag>> pairs it can leave.
SortResults(t, s) ==
    IF s THEN {<<t, s>>}
    ELSE IF t = <<>> THEN {<<t, s>>}
    ELSE {<<r, TRUE>> : r \in ips4o_sort(t)}

\* ---- SortParallel --------------------------------------------------------

\* The elements of a set of sorter ids in the container's order.
RECURSIVE AscendingSeq(_)
AscendingSeq(S) ==
    IF S = {} THEN <<>>
    ELSE LET m == CHOOSE x \in S : \A y \in S : x <= y
         IN  <<m>> \o AscendingSeq(S \ {m})

\* One choice from each set of a sequence of sets.
RECURSIVE SeqProduct(_)
SeqProduct(ss) ==
    IF ss = <<>> THEN {<<>>}
    ELSE {<<x>> \o r : x \in ss[1], r \in SeqProduct(Tail(ss))}

RECURSIVE Concat(_)
Concat(ss) == IF ss = <<>> THEN <<>> ELSE ss[1] \o Concat(Tail(ss))

RECURSIVE SumLen(_)
SumLen(ss) == IF ss = <<>> THEN 0 ELSE Len(ss[1]) + SumLen(Tail(ss))

\* std::vector::resize(n): truncate, or pad with null pointers.
Resize(t, n) == [i \in 1..n |-> IF i <= Len(t) THEN t[i] ELSE nullptr]

\* std::upper_bound(start, end, value, comp) over positions [lo, lo + len) of
\* t: the binary search of the standard library.
RECURSIVE UpperBoundLoop(_, _, _, _)
UpperBoundLoop(t, lo, len, value) ==
    IF len <= 0 THEN lo
    ELSE LET half == len \div 2
             mid == lo + half
         IN  IF Compare(value, At(t, mid))
             THEN UpperBoundLoop(t, lo, half, value)
             ELSE UpperBoundLoop(t, mid + 1, len - half - 1, value)

std_upper_bound(t, start, end, value) == UpperBoundLoop(t, start, end - start, value)

\* sorter.cpp:237-243. src[j] is the sorted pointer list of the j-th collected
\* sorter; row i (1-based) holds the i-th candidate splitter of every sorter.
SplitterRows(src) ==
    LET N == Len(src)
    IN  [i \in 1..(N - 1) |->
            [j \in 1..N |-> At(src[j], i * (Len(src[j]) \div N))]]

\* sorter.cpp:274-277: sort a row, take the median. The sort is unstable, but
\* every ordered arrangement of the row has the same key at a given position
\* and the splitter is only ever read through comp, so one arrangement stands
\* for them all.
Median(row) == At(CHOOSE r \in ips4o_sort(row) : TRUE, Len(row) \div 2)

\* Whether work package idx (0-based) of num_splitters closes its input
\* ranges at the splitter (sorter.cpp:288); the last package runs to the end.
EndsAtSplitter(idx, num_splitters) == idx < num_splitters - 1

\* Mutant of BumpWritePos: the write position moves by one slot a package.
BumpWritePos_BySlot(write_pos, part_size) == write_pos + 1

\* Where the package after one of size part_size writes (sorter.cpp:305).
BumpWritePos(write_pos, part_size) == write_pos + part_size

\* sorter.cpp:272-306: the merge work packages for the chosen splitters.
\* A range is <<j, first, second>>: positions [first, second) of src[j].
RECURSIVE WorkPackages(_, _, _, _, _)
WorkPackages(src, splitters, idx, next_start, write_pos) ==
    IF idx >= Len(splitters) THEN <<>>
    ELSE
      LET N == Len(src)
          start(j) == IF idx = 0 THEN 0 ELSE next_start[j]
          end(j) == IF EndsAtSplitter(idx, Len(splitters))
                    THEN std_upper_bound(src[j], start(j), Len(src[j]),
                                         splitters[idx + 1])
                    ELSE Len(src[j])
          ranges == [j \in 1..N |-> <<j, start(j), end(j)>>]
          input_ranges == SelectSeq(ranges, LAMBDA r : r[2] # r[3])
          part_size == SumOver([j \in 1..N |-> end(j) - start(j)], 1..N)
      IN  <<[input_ranges |-> input_ranges, destination |-> write_pos]>>
          \o WorkPackages(src, splitters, idx + 1,
                          [j \in 1..N |-> end(j)],
                          BumpWritePos(write_pos, part_size))

\* Mutant of HeapTops: heap_cmp the wrong way round (a max-heap of ranges).
HeapTops_MaxFirst(src, heap) ==
    {l \in heap : \A r \in heap :
        cmp_fn(At(src[r[1]], r[2]), At(src[l[1]], l[2])) <= 0}

\* heap_cmp (sorter.cpp:317): the priority queue's top is a range whose first
\* element no other range's first element is smaller than.
HeapTops(src, heap) ==
    {l \in heap : \A r \in heap :
        cmp_fn(At(src[r[1]], r[2]), At(src[l[1]], l[2])) >= 0}

\* sorter.cpp:325-332: the k-way merge of the ranges on the heap; every output
\* the priority queue can produce (equal elements pop in any order).
RECURSIVE KWayMerge(_, _)
KWayMerge(src, heap) ==
    IF heap = {} THEN {<<>>}
    ELSE UNION {
        LET rest == IF top[2] + 1 # top[3]
                    THEN (heap \ {top}) \cup {<<top[1], top[2] + 1, top[3]>>}
                    ELSE heap \ {top}
        IN  {<<At(src[top[1]], top[2])>> \o r : r \in KWayMerge(src, rest)}
        : top \in HeapTops(src, heap)}

\* Write the merged output out at positions destination, destination + 1, ...
WriteAt(t, destination, out) ==
    [i \in 1..Len(t) |->
        IF i > destination /\ i <= destination + Len(out)
        THEN out[i - destination] ELSE t[i]]

RECURSIVE WriteAll(_, _, _)
WriteAll(t, work, outs) ==
    IF work = <<>> THEN t
    ELSE WriteAll(WriteAt(t, work[1].destination, outs[1]), Tail(work), Tail(outs))

\* sorter.cpp:205-333 for one outcome src of the thread-local sorts: every
\* pointer list the merge can leave in the main sorter.
ParallelMergeResults(main_tuples, src) ==
    LET num_tuples == SumLen(src)
        rows == SplitterRows(src)
        splitters == [i \in 1..Len(rows) |-> Median(rows[i])]
        work == WorkPackages(src, splitters, 0, [j \in 1..Len(src) |-> 0], 0)
        merged == SeqProduct([w \in 1..Len(work) |->
                     KWayMerge(src, Range(work[w].input_ranges))])
    IN  {WriteAll(Resize(main_tuples, num_tuples), work, outs) : outs \in merged}

\* Whether SortParallel takes the single-threaded path (sorter.cpp:176).
UseSerialSort(num_sorters, num_tuples) ==
    num_sorters = 1 \/ num_tuples < kDefaultMinTuplesForParallelSort

\* Sorter::SortParallel on main sorter m over the thread-local sorters: the
\* <<pointer list of m, sorted flag of m>> pairs it can leave. (The local
\* sorters are all left with empty pointer lists.)
SortParallelResults(t, s, m) ==
    LET tl_sorters == AscendingSeq({l \in LocalSorters : t[l] # <<>>})
        N == Len(tl_sorters)
        num_tuples == SumLen([j \in 1..N |-> t[tl_sorters[j]]])
    IN  IF N = 0 THEN {<<t[m], TRUE>>}
        ELSE IF UseSerialSort(N, num_tuples)
        THEN SortResults(t[m] \o Concat([j \in 1..N |-> t[tl_sorters[j]]]), s[m])
        ELSE LET local_sorts ==
                   SeqProduct([j \in 1..N |->
                       {r[1] : r \in SortResults(t[tl_sorters[j]], s[tl_sorters[j]])}])
             IN  {<<r, TRUE>> :
                    r \in UNION {ParallelMergeResults(t[m], src) : src \in local_sorts}}

\* Mutant of TrimToTopK: an off-by-one comparison that keeps k + 1 tuples.
TrimToTopK_OffByOne(t, k) == IF k + 1 < Len(t) THEN Resize(t, k + 1) ELSE t

\* Sorter::SortTopKParallel's trim (sorter.cpp:370-372).
TrimToTopK(t, k) == IF k < Len(t) THEN Resize(t, k) ELSE t

\* ---- the sorter's operations as actions ----------------------------------

NoCall == [op |-> "none", sorter |-> MainSorter, arg |-> 0, ok |-> FALSE,
           input |-> {}, before |-> <<>>, again |-> FALSE]

SorterInit ==
    /\ tuples_ = [s \in Sorters |-> <<>>]
    /\ sorted_ = [s \in Sorters |-> FALSE]
    /\ tuple_storage_ = [s \in Sorters |-> {}]
    /\ owned_tuples_ = [s \in Sorters |-> {}]
    /\ num_allocs = [s \in Sorters |-> 0]
    /\ top_k = 0
    /\ topk_pending = FALSE
    /\ inserted = [s \in Sorters |-> {}]
    /\ last_call = NoCall

\* Sorter::AllocInputTuple on sorter s; the client writes key k into the
\* buffer that is returned.
DoAllocInputTuple(s, k) ==
    LET ret == MkTuple(s, num_allocs[s], k)
    IN  /\ tuple_storage_' = [tuple_storage_ EXCEPT ![s] = @ \cup {ret.buf}]
        /\ tuples_' = [tuples_ EXCEPT ![s] = Append(@, ret)]
        /\ num_allocs' = [num_allocs EXCEPT ![s] = @ + 1]
        /\ inserted' = [inserted EXCEPT ![s] = @ \cup {ret}]
        /\ UNCHANGED <<sorted_, owned_tuples_, top_k>>

AllocInputTuple(s, k) ==
    /\ SumOver(num_allocs, Sorters) < MaxTuples
    /\ DoAllocInputTuple(s, k)
    /\ last_call' = [NoCall EXCEPT !.op = "AllocInputTuple"]
    /\ UNCHANGED topk_pending

\* Sorter::AllocInputTupleTopK(top_k) on the main sorter.
AllocInputTupleTopK(k) ==
    /\ ~topk_pending
    /\ num_allocs[MainSorter] < MaxTopKInserts
    /\ DoAllocInputTuple(MainSorter, k)
    /\ topk_pending' = TRUE
    /\ last_call' = [NoCall EXCEPT !.op = "AllocInputTupleTopK", !.arg = top_k]

\* Sorter::AllocInputTupleTopKFinish(top_k) on the main sorter.
AllocInputTupleTopKFinish ==
    /\ topk_pending
    /\ \E r \in TopKFinishResults(tuples_[MainSorter], top_k) :
          tuples_' = [tuples_ EXCEPT ![MainSorter] = r]
    /\ topk_pending' = FALSE
    /\ last_call' = [NoCall EXCEPT !.op = "AllocInputTupleTopKFinish",
                                   !.arg = top_k,
                                   !.before = tuples_[MainSorter]]
    /\ UNCHANGED <<sorted_, tuple_storage_, owned_tuples_, num_allocs, top_k, inserted>>

\* Sorter::Sort on sorter s.
Sort(s) ==
    /\ \E r \in SortResults(tuples_[s], sorted_[s]) :
          /\ tuples_' = [tuples_ EXCEPT ![s] = r[1]]
          /\ sorted_' = [sorted_ EXCEPT ![s] = r[2]]
    /\ last_call' = [op |-> "Sort", sorter |-> s, arg |-> 0,
                     ok |-> (sorted_[s] => IsSortedSeq(tuples_[s])),
                     input |-> Range(tuples_[s]),
                     before |-> tuples_[s],
                     again |-> (last_call.op = "Sort" /\ last_call.sorter = s)]
    /\ UNCHANGED <<tuple_storage_, owned_tuples_, num_allocs, top_k, topk_pending, inserted>>

\* What SortParallel and SortTopKParallel start from: whether the main sorter
\* is as constructed and every sorted flag tells the truth, and the tuples of
\* the thread-local sorters.
ParallelCall(op, k) ==
    [op |-> op, sorter |-> MainSorter, arg |-> k,
     ok |-> /\ tuples_[MainSorter] = <<>>
            /\ ~sorted_[MainSorter]
            /\ \A l \in LocalSorters : sorted_[l] => IsSortedSeq(tuples_[l]),
     input |-> UNION {Range(tuples_[l]) : l \in LocalSorters},
     before |-> <<>>,
     again |-> FALSE]

\* Mutant of TransferOwnership: the serial fallback leaves the storage with
\* the thread-local sorters.
TransferOwnership_ParallelOnly ==
    LET tl == {l \in LocalSorters : tuples_[l] # <<>>}
        N == Cardinality(tl)
        num_tuples == SumOver([l \in tl |-> Len(tuples_[l])], tl)
    IN  /\ IF UseSerialSort(N, num_tuples)
           THEN UNCHANGED <<owned_tuples_, tuple_storage_>>
           ELSE /\ owned_tuples_' = [owned_tuples_ EXCEPT ![MainSorter] =
                                        @ \cup UNION {tuple_storage_[l] : l \in tl}]
                /\ tuple_storage_' = [s \in Sorters |->
                                        IF s \in tl THEN {} ELSE tuple_storage_[s]]
        /\ UNCHANGED <<num_allocs, top_k, topk_pending, inserted>>

\* The effect of SortParallel on everything but the main sorter's pointer
\* list and flag: storage changes hands and the local lists are cleared
\* (sorter.cpp:181-185 and 343-347); the parallel path has sorted the locals.
TransferOwnership ==
    LET tl == {l \in LocalSorters : tuples_[l] # <<>>}
        N == Cardinality(tl)
        num_tuples == SumOver([l \in tl |-> Len(tuples_[l])], tl)
    IN  /\ owned_tuples_' = [owned_tuples_ EXCEPT ![MainSorter] =
                                @ \cup UNION {tuple_storage_[l] : l \in tl}]
        /\ tuple_storage_' = [s \in Sorters |->
                                IF s \in tl THEN {} ELSE tuple_storage_[s]]
        /\ UNCHANGED <<num_allocs, top_k, topk_pending, inserted>>

LocalFlagsAfter ==
    LET tl == {l \in LocalSorters : tuples_[l] # <<>>}
        N == Cardinality(tl)
        num_tuples == SumOver([l \in tl |-> Len(tuples_[l])], tl)
    IN  [l \in LocalSorters |->
            IF l \in tl /\ ~UseSerialSort(N, num_tuples) THEN TRUE ELSE sorted_[l]]

\* Sorter::SortParallel on the main sorter.
SortParallel ==
    /\ \E r \in SortParallelResults(tuples_, sorted_, MainSorter) :
          /\ tuples_' = [s \in Sorters |-> IF s = MainSorter THEN r[1] ELSE <<>>]
          /\ sorted_' = [s \in Sorters |->
                            IF s = MainSorter THEN r[2] ELSE LocalFlagsAfter[s]]
    /\ TransferOwnership
    /\ last_call' = ParallelCall("SortParallel", 0)

\* Sorter::SortTopKParallel(k) on the main sorter.
SortTopKParallel(k) ==
    /\ \E r \in SortParallelResults(tuples_, sorted_, MainSorter) :
          /\ tuples_' = [s \in Sorters |->
                            IF s = MainSorter THEN TrimToTopK(r[1], k) ELSE <<>>]
          /\ sorted_' = [s \in Sorters |->
                            IF s = MainSorter THEN r[2] ELSE LocalFlagsAfter[s]]
    /\ TransferOwnership
    /\ last_call' = ParallelCall("SortTopKParallel", k)

\* The sorters as constructed, beside the other components.
SortInit == SorterInit /\ OthersIdle

\* The main sorter is as its constructor left it.
MainAsConstructed == tuples_[MainSorter] = <<>> /\ ~sorted_[MainSorter]

ParallelSortNext ==
    \/ /\ MainAsConstructed
       /\ \E s \in LocalSorters, k \in Keys : AllocInputTuple(s, k)
       /\ UNCHANGED nonSorterVars
    \/ /\ MainAsConstructed
       /\ SortParallel
       /\ UNCHANGED nonSorterVars
    \/ /\ MainAsConstructed
       /\ \E k \in 0..MaxParallelTopK : SortTopKParallel(k)
       /\ UNCHANGED nonSorterVars

\* The worker threads fill their thread-local sorters; then the main sorter,
\* still as constructed, sorts them with one SortParallel or SortTopKParallel.
ParallelSortSpec == SortInit /\ [][ParallelSortNext]_vars

SerialSortNext ==
    \/ (\E k \in Keys : AllocInputTuple(MainSorter, k)) /\ UNCHANGED nonSorterVars
    \/ Sort(MainSorter) /\ UNCHANGED nonSorterVars

\* One sorter under any interleaving of AllocInputTuple and Sort.
SerialSortSpec == SortInit /\ [][SerialSortNext]_vars

TopKInit ==
    /\ tuples_ = [s \in Sorters |-> <<>>]
    /\ sorted_ = [s \in Sorters |-> FALSE]
    /\ tuple_storage_ = [s \in Sorters |-> {}]
    /\ owned_tuples_ = [s \in Sorters |-> {}]
    /\ num_allocs = [s \in Sorters |-> 0]
    /\ top_k \in 1..MaxTopK
    /\ topk_pending = FALSE
    /\ inserted = [s \in Sorters |-> {}]
    /\ last_call = NoCall
    /\ OthersIdle

TopKNext ==
    \/ (\E k \in Keys : AllocInputTupleTopK(k)) /\ UNCHANGED nonSorterVars
    \/ AllocInputTupleTopKFinish /\ UNCHANGED nonSorterVars

\* A sorter that is fed through AllocInputTupleTopK / AllocInputTupleTopKFinish.
TopKSpec == TopKInit /\ [][TopKNext]_vars

(***************************************************************************)
(* sql::AggregationHashTable: the batch path.  A table is handled as the   *)
(* record T = [entries, ht, max_fill]; a batch is the sequence of the key  *)
(* column of the rows the iterator selects, row i at position i.           *)
(***************************************************************************)
\* hashFn of agg-vec.tpl: @hash of the key, a function of the key alone.
\* The hashes of keys 1 and 2 differ but share a bucket while the directory
\* has at most four buckets, key 3 has a bucket of its own, and keys 1 and 4
\* have the same hash.
hashFn(key) == <<1, 5, 2, 1>>[((key - 1) % 4) + 1]

\* keyCheck of agg-vec.tpl: the key of the aggregate against the key of the
\* row the iterator is positioned at.
keyCheck(agg, row_key) == row_key = agg.key

\* constructAgg of agg-vec.tpl: sets the key, @aggInit on the count.
constructAgg(row_key) == [key |-> row_key, count |-> 0]

\* updateAgg of agg-vec.tpl: @aggAdvance on the count.
updateAgg(agg) == [agg EXCEPT !.count = @ + 1]

Batches == UNION {[1..n -> AggKeys] : n \in 1..MaxBatch}

\* util::VectorUtil::FilterNe / FilterEq against 0: the positions whose
\* entry is non-null / null, in ascending order.
FilterNe(entries) ==
    SelectSeq([i \in 1..Len(entries) |-> i], LAMBDA i : entries[i] # nullentry)
FilterEq(entries) ==
    SelectSeq([i \in 1..Len(entries) |-> i], LAMBDA i : entries[i] = nullentry)

NeedsToGrow(T) == T.ht.num_elems >= T.max_fill

\* Mutant of Grow: the directory is doubled and the entries are not
\* inserted again.
Grow_NoReinsert(T) ==
    LET new_size == capacity(T.ht) * 2
    IN  [T EXCEPT !.ht = SetSize(new_size), !.max_fill = MaxFill(new_size)]

\* AggregationHashTable::Grow
Grow(T) ==
    LET new_size == capacity(T.ht) * 2
    IN  InsertEntriesFrom([T EXCEPT !.ht = SetSize(new_size),
                                    !.max_fill = MaxFill(new_size)], 1)

\* AggregationHashTable::Insert: the new entry is the last one of the result;
\* its payload is for the caller to write.
Insert(T, hash) ==
    LET T1 == IF NeedsToGrow(T) THEN Grow(T) ELSE T
        entry == [hash |-> hash, next |-> nullentry,
                  payload |-> [key |-> 0, count |-> 0]]
        T2 == [T1 EXCEPT !.entries = Append(@, entry)]
    IN  HashTableInsert(T2, Len(T2.entries))

\* AggregationHashTable::LookupEntryInternal: the first entry of hash's
\* chain, from e on, with that hash and a key equal to the key of the row the
\* iterator is positioned at.
RECURSIVE LookupEntryInternal(_, _, _, _)
LookupEntryInternal(T, e, hash, row_key) ==
    IF e = nullentry THEN nullentry
    ELSE IF T.entries[e].hash = hash /\ keyCheck(T.entries[e].payload, row_key)
         THEN e
         ELSE LookupEntryInternal(T, T.entries[e].next, hash, row_key)

\* AggregationHashTable::ComputeHashAndLoadInitialImpl
ComputeHashAndLoadInitial(T, batch) ==
    LET hashes == [i \in 1..Len(batch) |-> hashFn(batch[i])]
    IN  [hashes |-> hashes,
         entries |-> [i \in 1..Len(batch) |-> FindChainHead(T.ht, hashes[i])]]

\* AggregationHashTable::FollowNextLoop: positions whose entry mismatches and
\* has a successor move on to it; every other position leaves the working
\* set with its entry as it is.
RECURSIVE FollowNextLoop(_, _, _, _, _)
FollowNextLoop(T, batch, hashes, entries, group_sel) ==
    IF Len(group_sel) = 0 THEN entries
    ELSE LET keys_match(i) ==
                 /\ T.entries[entries[i]].hash = hashes[i]
                 /\ keyCheck(T.entries[entries[i]].payload, batch[i])
             has_next(i) == T.entries[entries[i]].next # nullentry
             follow == SelectSeq(group_sel,
                                 LAMBDA i : ~keys_match(i) /\ has_next(i))
             followed == [i \in 1..Len(entries) |->
                             IF i \in Range(follow)
                             THEN T.entries[entries[i]].next ELSE entries[i]]
         IN  FollowNextLoop(T, batch, hashes, followed, follow)

\* AggregationHashTable::LookupBatch
LookupBatch(T, batch) ==
    LET init == ComputeHashAndLoadInitial(T, batch)
    IN  [hashes |-> init.hashes,
         entries |-> FollowNextLoop(T, batch, init.hashes, init.entries,
                                    FilterNe(init.entries))]

\* AggregationHashTable::CreateMissingGroups, from the idx-th missing
\* position on.  pos is the row the iterator is positioned at: the lookup
\* compares keys against that row, and the iterator moves to the missing
\* row only when a group is created for it.  The entries vector is written
\* only when the lookup finds a group.
RECURSIVE CreateMissingGroupsFrom(_, _, _, _, _, _, _)
CreateMissingGroupsFrom(T, batch, hashes, entries, group_sel, idx, pos) ==
    IF idx > Len(group_sel) THEN [table |-> T, entries |-> entries]
    ELSE LET row == group_sel[idx]
             hash == hashes[row]
             entry == LookupEntryInternal(T, FindChainHead(T.ht, hash), hash,
                                          batch[pos])
             T1 == Insert(T, hash)
             T2 == [T1 EXCEPT !.entries[Len(T1.entries)].payload =
                                  constructAgg(batch[row])]
         IN  IF entry # nullentry
             THEN CreateMissingGroupsFrom(T, batch, hashes,
                      [entries EXCEPT ![row] = entry], group_sel, idx + 1, pos)
             ELSE CreateMissingGroupsFrom(T2, batch, hashes, entries,
                                          group_sel, idx + 1, row)

\* AggregationHashTable::CreateMissingGroups; the iterator was Reset before.
CreateMissingGroups(T, batch, hashes, entries) ==
    CreateMissingGroupsFrom(T, batch, hashes, entries, FilterEq(entries), 1, 1)

\* AggregationHashTable::AdvanceGroups, from the idx-th non-null position on.
RECURSIVE AdvanceGroupsFrom(_, _, _, _)
AdvanceGroupsFrom(T, entries, group_sel, idx) ==
    IF idx > Len(group_sel) THEN T
    ELSE LET entry == entries[group_sel[idx]]
         IN  AdvanceGroupsFrom(
                 [T EXCEPT !.entries[entry].payload = updateAgg(@)],
                 entries, group_sel, idx + 1)

AdvanceGroups(T, entries) == AdvanceGroupsFrom(T, entries, FilterNe(entries), 1)

\* AggregationHashTable::ProcessBatchImpl
ProcessBatchImpl(T, batch) ==
    LET looked == LookupBatch(T, batch)
        created == CreateMissingGroups(T, batch, looked.hashes, looked.entries)
    IN  AdvanceGroups(created.table, created.entries)

RowsWithKey(batch, k) == Cardinality({i \in 1..Len(batch) : batch[i] = k})

\* AggregationHashTable::ProcessBatch on a batch of rows.
ProcessBatch(batch) ==
    /\ SumOver(agg_rows, AggKeys) + Len(batch) <= MaxAggRows
    /\ LET T == ProcessBatchImpl([entries |-> agg_entries_, ht |-> hash_table_,
                                  max_fill |-> max_fill_], batch)
       IN  /\ agg_entries_' = T.entries
           /\ hash_table_' = T.ht
           /\ max_fill_' = T.max_fill
    /\ agg_rows' = [k \in AggKeys |-> agg_rows[k] + RowsWithKey(batch, k)]
    /\ UNCHANGED <<partition_heads_, partition_tails_, agg_last>>

AggSpecInit == SorterInit /\ AggInit /\ JoinInit /\ VMIdle /\ RestIdle

AggNext == \E batch \in Batches : ProcessBatch(batch) /\ UNCHANGED nonAggVars

\* One aggregation table that is fed batch after batch.
AggSpec == AggSpecInit /\ [][AggNext]_vars

(***************************************************************************)
(* sql::AggregationHashTable in partitioned mode: InsertPartitioned and    *)
(* the flush into the overflow partitions.                                 *)
(***************************************************************************)
\* The number of overflow partitions (scaled down).
kDefaultNumPartitions == 2

\* The width of hash_t in bits (scaled down to the hashes of the model).
kHashBits == 3

\* util::BitUtil::CountLeadingZeros on a word of kHashBits bits.
RECURSIVE CountLeadingZeros(_)
CountLeadingZeros(x) ==
    IF x = 0 THEN kHashBits ELSE CountLeadingZeros(x \div 2) - 1

\* part_shift_bits_ as the constructor sets it.
part_shift_bits_ == CountLeadingZeros(kDefaultNumPartitions - 1)

\* Mutant of PartitionIndex: the low bits of the hash.
PartitionIndex_LowBits(hash) == hash % kDefaultNumPartitions

\* part_idx of the flush: entry->hash >> part_shift_bits_.
PartitionIndex(hash) == hash \div (2 ^ part_shift_bits_)

\* The entries from e on along the next pointers, at most fuel of them.
RECURSIVE Chain(_, _, _)
Chain(entries, e, fuel) ==
    IF e = nullentry \/ fuel = 0 THEN <<>>
    ELSE <<e>> \o Chain(entries, entries[e].next, fuel - 1)

\* GenericHashTable::DrainEntries: the entries in the order the sink gets
\* them, bucket by bucket and along each chain, and the table it leaves.
DrainEntries(T) ==
    [order |-> Concat([slot \in 1..capacity(T.ht) |->
                          Chain(T.entries, T.ht.directory[slot - 1], Len(T.entries))]),
     ht |-> [directory |-> [slot \in DOMAIN T.ht.directory |-> nullentry],
             num_elems |-> 0]]

\* The sink of the flush applied to the entries of order from position i on.
RECURSIVE FlushEntriesFrom(_, _, _)
FlushEntriesFrom(F, order, i) ==
    IF i > Len(order) THEN F
    ELSE LET entry == order[i]
             part_idx == PartitionIndex(F.table.entries[entry].hash)
         IN  FlushEntriesFrom(
                 [table |-> [F.table EXCEPT !.entries[entry].next = F.heads[part_idx]],
                  heads |-> [F.heads EXCEPT ![part_idx] = entry],
                  tails |-> IF F.tails[part_idx] = nullentry
                            THEN [F.tails EXCEPT ![part_idx] = entry]
                            ELSE F.tails],
                 order, i + 1)

\* AggregationHashTable::FlushToOverflowPartitions
FlushToOverflowPartitions(T, heads, tails) ==
    LET cleared == [p \in 0..(kDefaultNumPartitions - 1) |-> nullentry]
        allocate == DOMAIN heads = {}
        drained == DrainEntries(T)
    IN  FlushEntriesFrom([table |-> [T EXCEPT !.ht = drained.ht],
                          heads |-> IF allocate THEN cleared ELSE heads,
                          tails |-> IF allocate THEN cleared ELSE tails],
                         drained.order, 1)

\* AggregationHashTable::InsertPartitioned(hash)
InsertPartitioned(hash) ==
    /\ Len(agg_entries_) < MaxPartInserts
    /\ LET T == Insert([entries |-> agg_entries_, ht |-> hash_table_,
                        max_fill |-> max_fill_], hash)
           F == IF T.ht.num_elems >= flush_threshold_
                THEN FlushToOverflowPartitions(T, partition_heads_, partition_tails_)
                ELSE [table |-> T, heads |-> partition_heads_,
                      tails |-> partition_tails_]
       IN  /\ agg_entries_' = F.table.entries
           /\ hash_table_' = F.table.ht
           /\ max_fill_' = F.table.max_fill
           /\ partition_heads_' = F.heads
           /\ partition_tails_' = F.tails
           /\ agg_last' = [op |-> "InsertPartitioned",
                           num_elements |-> T.ht.num_elems]
    /\ UNCHANGED agg_rows

\* AggregationHashTable::Insert(hash), called by the client directly.
InsertCall(hash) ==
    /\ Len(agg_entries_) < MaxPartInserts
    /\ LET T == Insert([entries |-> agg_entries_, ht |-> hash_table_,
                        max_fill |-> max_fill_], hash)
       IN  /\ agg_entries_' = T.entries
           /\ hash_table_' = T.ht
           /\ max_fill_' = T.max_fill
    /\ agg_last' = [op |-> "Insert", num_elements |-> hash_table_'.num_elems]
    /\ UNCHANGED <<partition_heads_, partition_tails_, agg_rows>>

InsertNext ==
    \/ \E hash \in 0..(2 ^ kHashBits - 1) :
          InsertCall(hash) /\ UNCHANGED nonAggVars
    \/ \E hash \in 0..(2 ^ kHashBits - 1) :
          InsertPartitioned(hash) /\ UNCHANGED nonAggVars

\* One aggregation table under any sequence of Insert and InsertPartitioned
\* calls.
InsertSpec == AggSpecInit /\ [][InsertNext]_vars

PartitionNext ==
    \E hash \in 0..(2 ^ kHashBits - 1) :
       InsertPartitioned(hash) /\ UNCHANGED nonAggVars

\* One thread-local aggregation table in partitioned mode: every entry is
\* inserted with InsertPartitioned.
PartitionSpec == AggSpecInit /\ [][PartitionNext]_vars

(***************************************************************************)
(* sql::JoinHashTable: lazy insertion, build, tuple-at-a-time probe.       *)
(***************************************************************************)
\* util::Hasher::Hash of a key, as the build and the probe side compute it:
\* the same stand-in hash function as hashFn.
Hash(key) == hashFn(key)

\* The KeyEq callback of the probe: build_key of the table tuple against the
\* probe key.
key_eq(probe_tuple, table_tuple) == table_tuple.key = probe_tuple

\* JoinHashTable::AllocInputTuple(hash); the client writes key into the
\* payload that is returned.
JoinAllocInputTuple(key) ==
    /\ Len(join_entries_) < MaxJoinTuples
    /\ join_entries_' = Append(join_entries_,
                               [hash |-> Hash(key), next |-> head_.next,
                                key |-> key])
    /\ head_' = [next |-> Len(join_entries_) + 1]
    /\ num_elems_' = num_elems_ + 1
    /\ UNCHANGED <<generic_hash_table_, built_, lookup>>

\* The least power of two that is at least n (and at least one bucket).
RECURSIVE PowerOf2Ceil(_, _)
PowerOf2Ceil(n, p) == IF p >= n THEN p ELSE PowerOf2Ceil(n, 2 * p)

\* JoinHashTable::Build with the generic backend: nothing if already built;
\* else the directory is sized for num_elems / load_factor and every entry
\* of the chunked vector is inserted.
Build ==
    IF built_ THEN UNCHANGED joinVars
    ELSE LET T == InsertEntriesFrom(
                      [entries |-> join_entries_,
                       ht |-> SetSize(PowerOf2Ceil(2 * num_elems_, 1))], 1)
         IN  /\ join_entries_' = T.entries
             /\ generic_hash_table_' = T.ht
             /\ built_' = TRUE
             /\ UNCHANGED <<head_, num_elems_, lookup>>

\* JoinHashTable::Lookup(hash) for a probe key: the iterator starts at the
\* first entry of the chain that has the hash.
RECURSIVE SkipToHash(_, _)
SkipToHash(entry, hash) ==
    IF entry # nullentry /\ join_entries_[entry].hash # hash
    THEN SkipToHash(join_entries_[entry].next, hash)
    ELSE entry

Lookup(probe) ==
    /\ built_
    /\ lookup' = [open |-> TRUE,
                  next_ |-> SkipToHash(FindChainHead(generic_hash_table_,
                                                     Hash(probe)), Hash(probe)),
                  hash_ |-> Hash(probe), probe |-> probe,
                  matches |-> <<>>, exhausted |-> FALSE]
    /\ UNCHANGED <<join_entries_, head_, generic_hash_table_, num_elems_, built_>>

\* Mutant of NextMatchLoop: the entry is accepted on its hash alone.
RECURSIVE NextMatchLoop_HashOnly(_, _, _)
NextMatchLoop_HashOnly(result, hash, probe_tuple) ==
    IF result = nullentry THEN [result |-> nullentry, next_ |-> nullentry]
    ELSE IF join_entries_[result].hash = hash
         THEN [result |-> result, next_ |-> join_entries_[result].next]
         ELSE NextMatchLoop_HashOnly(join_entries_[result].next, hash,
                                     probe_tuple)

\* JoinHashTable::Iterator::NextMatch, entered with result = next_: the
\* first entry from there on whose hash is hash_ and whose key key_eq
\* accepts, and the entry after it as the new next_.
RECURSIVE NextMatchLoop(_, _, _)
NextMatchLoop(result, hash, probe_tuple) ==
    IF result = nullentry THEN [result |-> nullentry, next_ |-> nullentry]
    ELSE IF /\ join_entries_[result].hash = hash
            /\ key_eq(probe_tuple, join_entries_[result])
         THEN [result |-> result, next_ |-> join_entries_[result].next]
         ELSE NextMatchLoop(join_entries_[result].next, hash, probe_tuple)

NextMatch ==
    /\ lookup.open /\ ~lookup.exhausted
    /\ LET r == NextMatchLoop(lookup.next_, lookup.hash_, lookup.probe)
       IN  lookup' = [lookup EXCEPT
                         !.next_ = r.next_,
                         !.matches = IF r.result = nullentry THEN @
                                     ELSE Append(@, r.result),
                         !.exhausted = (r.result = nullentry)]
    /\ UNCHANGED <<join_entries_, head_, generic_hash_table_, num_elems_, built_>>

JoinSpecInit == SorterInit /\ AggInit /\ JoinInit /\ VMIdle /\ RestIdle

JoinNext ==
    \/ (\E key \in JoinKeys : JoinAllocInputTuple(key)) /\ UNCHANGED nonJoinVars
    \/ Build /\ UNCHANGED nonJoinVars
    \/ (\E probe \in JoinKeys : Lookup(probe)) /\ UNCHANGED nonJoinVars
    \/ NextMatch /\ UNCHANGED nonJoinVars

\* One join hash table: tuples are allocated, the table is built, probes run.
JoinSpec == JoinSpecInit /\ [][JoinNext]_vars

(***************************************************************************)
(* vm::VM: the bytecode stream, frames, and the interpreter's handlers for *)
(* AssignImm1, Div, Rem, Call and Return.                                  *)
(***************************************************************************)
\* Widths, in bytes, of what the READ_* macros read.
kOpcodeSize == 4
kLocalIdSize == 4
kFuncIdSize == 2
kUImm2Size == 2
kImm1Size == 1
kJmpOffsetSize == 4

\* kMaxStackAllocSize: a frame of more bytes than this comes from the heap.
kMaxStackAllocSize == 16384

\* The Bytecode enumeration, for the bytecodes of this model (of the typed
\* ones the 8-bit signed instance): a bytecode's value is its position in
\* BYTECODE_LIST.
Bytecode == [Add |-> 0, Div |-> 24, Rem |-> 32, Jump |-> 128, JumpIfTrue |-> 129,
             JumpIfFalse |-> 130, AssignImm1 |-> 140, Call |-> 146,
             Return |-> 147]

\* The bytecode stream is a sequence of cells, each the encoding of one
\* opcode or operand: its width and its value.
Cell(size, val) == [size |-> size, val |-> val]

\* The encoding of one instruction: the opcode, then its operands in the
\* order of BYTECODE_LIST; a Call carries its argument locals after the
\* function id and the argument count.
Emit(instr) ==
    CASE instr.op = "AssignImm1" ->
            <<Cell(kOpcodeSize, Bytecode[instr.op]), Cell(kLocalIdSize, instr.dest),
              Cell(kImm1Size, instr.imm)>>
      [] instr.op \in {"Div", "Rem"} ->
            <<Cell(kOpcodeSize, Bytecode[instr.op]), Cell(kLocalIdSize, instr.dest),
              Cell(kLocalIdSize, instr.lhs), Cell(kLocalIdSize, instr.rhs)>>
      [] instr.op = "Call" ->
            <<Cell(kOpcodeSize, Bytecode[instr.op]), Cell(kFuncIdSize, instr.func_id),
              Cell(kUImm2Size, Len(instr.params))>>
            \o [i \in 1..Len(instr.params) |->
                   Cell(kLocalIdSize, instr.params[i])]
      [] instr.op = "Return" -> <<Cell(kOpcodeSize, Bytecode[instr.op])>>
      [] instr.op = "Jump" ->
            <<Cell(kOpcodeSize, Bytecode[instr.op]),
              Cell(kJmpOffsetSize, instr.offset)>>
      [] instr.op \in {"JumpIfTrue", "JumpIfFalse"} ->
            <<Cell(kOpcodeSize, Bytecode[instr.op]), Cell(kLocalIdSize, instr.cond),
              Cell(kJmpOffsetSize, instr.offset)>>

RECURSIVE EmitAll(_)
EmitAll(instrs) ==
    IF instrs = <<>> THEN <<>> ELSE Emit(Head(instrs)) \o EmitAll(Tail(instrs))

RECURSIVE CodeSize(_)
CodeSize(code) ==
    IF code = <<>> THEN 0 ELSE Head(code).size + CodeSize(Tail(code))

\* The byte offsets at which the elements of a sequence of cells start, and
\* after the last one the offset of the end.
RECURSIVE Offsets(_, _)
Offsets(cells, from) ==
    IF cells = <<>> THEN <<from>>
    ELSE <<from>> \o Offsets(Tail(cells), from + Head(cells).size)

\* The stream as memory: byte offset -> the cell that starts there.
Stream(cells) ==
    LET at == Offsets(cells, 0)
    IN  [ip \in {at[i] : i \in 1..Len(cells)} |->
            cells[CHOOSE i \in 1..Len(cells) : at[i] = ip]]

\* Read<T>(&ip): the value encoded at byte offset ip, read with the width
\* of T.  A read that does not start at a cell of that width yields no
\* value the interpreter can use.
Read(ip, size) ==
    IF ip \in DOMAIN module_.code /\ module_.code[ip].size = size
    THEN module_.code[ip].val ELSE -1

\* ---- the modules that are run -------------------------------------------
Functions == 0..(NumFunctions - 1)
NumLocals == MaxParams + 1
Values == 0..MaxVal

\* The body of function f in a module whose functions take num_params[f]
\* parameters: the locals that are no parameters are assigned, the first
\* arithmetic bytecode runs, function f + 1 (if there is one) is called with
\* the first locals as arguments, the second arithmetic bytecode runs, and
\* the function returns.
Body(f, num_params, ops) ==
    [i \in 1..(NumLocals - num_params[f]) |->
        [op |-> "AssignImm1", dest |-> num_params[f] + i - 1,
         imm |-> (f + num_params[f] + i - 1) % (MaxVal + 1)]]
    \o <<[op |-> ops[1], dest |-> MaxParams, lhs |-> 0, rhs |-> 1]>>
    \o (IF f + 1 \in Functions
        THEN <<[op |-> "Call", func_id |-> f + 1,
                params |-> [i \in 1..num_params[f + 1] |-> i - 1]]>>
        ELSE <<>>)
    \o <<[op |-> ops[2], dest |-> MaxParams, lhs |-> 1, rhs |-> 0]>>
    \o <<[op |-> "Return"]>>

RECURSIVE BodiesUpTo(_, _, _)
BodiesUpTo(f, num_params, ops) ==
    IF f < 0 THEN <<>>
    ELSE BodiesUpTo(f - 1, num_params, ops) \o Body(f, num_params, ops)

\* The byte offsets at which the instructions start, and the end offset.
RECURSIVE InstrOffsets(_, _)
InstrOffsets(instrs, from) ==
    IF instrs = <<>> THEN <<from>>
    ELSE <<from>> \o InstrOffsets(Tail(instrs),
                                  from + CodeSize(Emit(Head(instrs))))

\* The compiled module: the function table (FunctionInfo: where the
\* function's bytecode starts, how many parameters it has, the size of its
\* frame in bytes, every local of the model being one byte), the bytecode
\* stream, and the instructions the stream was emitted from with the
\* offsets at which they start.
Module(num_params, ops) ==
    LET instrs == BodiesUpTo(NumFunctions - 1, num_params, ops)
    IN  [functions |-> [f \in Functions |->
                           [bytecode_offset |->
                                CodeSize(EmitAll(BodiesUpTo(f - 1, num_params, ops))),
                            num_params |-> num_params[f],
                            frame_size |-> NumLocals]],
         code |-> Stream(EmitAll(instrs)),
         instrs |-> instrs,
         starts |-> InstrOffsets(instrs, 0)]

\* The entry function takes two parameters, the others any number.
Modules ==
    {Module(np, ops) :
        np \in {q \in [Functions -> 0..MaxParams] : q[0] = 2},
        ops \in [1..2 -> {"Div", "Rem"}]}

\* The byte offset at which the i-th instruction of the module starts, and
\* the instruction that starts at a byte offset (0 if none does).
InstrStart(i) == module_.starts[i]

InstrAt(ip) ==
    LET found == {i \in 1..Len(module_.instrs) : InstrStart(i) = ip}
    IN  IF found = {} THEN 0 ELSE CHOOSE i \in found : TRUE

\* ---- the interpreter ------------------------------------------------------
\* The running activation and the opcode DISPATCH_NEXT reads.
Top == frames[Len(frames)]
READ_OP == Read(Top.ip, kOpcodeSize)

\* The bytes of a frame that nothing has written yet.  The bodies assign
\* every local that is no parameter before they read it.
Uninitialized == -1

\* Frame::EnsureInFrame's test on a local's byte offset.
InFrame(frame, index) == index >= 0 /\ index < frame.frame_size

\* Frame::LocalAt for a by-value local; the model keeps the first NumLocals
\* bytes of a frame, the others are never written.
LocalAt(frame, index) ==
    IF index + 1 \in DOMAIN frame.locals THEN frame.locals[index + 1]
    ELSE Uninitialized

\* A store through the pointer Frame::LocalAt<T *> yields.
StoreLocal(frame, index, val) ==
    IF index + 1 \in DOMAIN frame.locals
    THEN [frame EXCEPT !.locals[index + 1] = val] ELSE frame

\* The frame of an activation of func: the buffer comes from the heap when
\* it is larger than kMaxStackAllocSize, from alloca otherwise.
NewFrame(func, raw_frame, site) ==
    [func |-> func, ip |-> module_.functions[func].bytecode_offset,
     locals |-> raw_frame,
     frame_size |-> module_.functions[func].frame_size,
     used_heap |-> module_.functions[func].frame_size > kMaxStackAllocSize,
     site |-> site]

\* VM::InvokeFunction on the entry function: the arguments are copied into
\* a new frame and Interpret starts at the function's bytecode.
InvokeFunction(args) ==
    /\ vm_status = "idle"
    /\ LET frame == NewFrame(0, [i \in 1..NumLocals |->
                                    IF i <= Len(args) THEN args[i]
                                    ELSE Uninitialized], NoStep.site)
       IN  /\ frames' = <<frame>>
           /\ heap_frames' = heap_frames + (IF frame.used_heap THEN 1 ELSE 0)
    /\ vm_status' = "running"
    /\ UNCHANGED <<module_, log_errors, vm_last>>

\* A local outside the frame is accessed.  The debug build's EnsureInFrame
\* throws std::runtime_error, which nothing in the VM catches: Interpret,
\* ExecuteCall and InvokeFunction are all left by the exception, none of
\* them reaching its std::free.  The release build has no test and the
\* access is undefined.
Raise ==
    /\ vm_status' \in {"threw", "undefined"}
    /\ frames' = <<>>
    /\ UNCHANGED <<module_, log_errors, heap_frames>>

\* OP(AssignImm1)
OpAssignImm1 ==
    /\ vm_status = "running"
    /\ READ_OP = Bytecode.AssignImm1
    /\ vm_last' = [NoStep EXCEPT !.op = "AssignImm1", !.instr = InstrAt(Top.ip)]
    /\ LET ip1 == Top.ip + kOpcodeSize
           dest == Read(ip1, kLocalIdSize)
           imm == Read(ip1 + kLocalIdSize, kImm1Size)
       IN  IF InFrame(Top, dest)
           THEN /\ frames' = [frames EXCEPT ![Len(frames)] =
                                 [StoreLocal(@, dest, imm) EXCEPT
                                     !.ip = ip1 + kLocalIdSize + kImm1Size]]
                /\ UNCHANGED <<module_, vm_status, log_errors, heap_frames>>
           ELSE Raise

\* What the handlers leave on a zero divisor when they neither store a
\* quotient nor keep the destination.
kDivByZeroSentinel == 0

\* OpDiv_<type> / OpRem_<type>: the values the handler may leave in *dest.
OpArithmetic(op, dest_val, lhs, rhs) ==
    IF rhs = 0 THEN {dest_val, kDivByZeroSentinel}
    ELSE IF op = "Div" THEN {lhs \div rhs} ELSE {lhs % rhs}

\* Mutant of DivisionByZeroTest: the test is compiled out, as it is for Add.
DivisionByZeroTest_Off(test, rhs) == FALSE

\* The test of DO_GEN_ARITHMETIC_OP that guards LOG_ERROR.
DivisionByZeroTest(test, rhs) == test /\ rhs = 0

\* DO_GEN_ARITHMETIC_OP(Div, true, type) and DO_GEN_ARITHMETIC_OP(Rem, true,
\* type): the operands are read, a zero divisor is logged, the handler is
\* called whatever the divisor is, and the next bytecode is dispatched.
DO_GEN_ARITHMETIC_OP(op) ==
    /\ vm_status = "running"
    /\ READ_OP = Bytecode[op]
    /\ LET ip1 == Top.ip + kOpcodeSize
           dest == Read(ip1, kLocalIdSize)
           lhs_id == Read(ip1 + kLocalIdSize, kLocalIdSize)
           rhs_id == Read(ip1 + 2 * kLocalIdSize, kLocalIdSize)
           lhs == LocalAt(Top, lhs_id)
           rhs == LocalAt(Top, rhs_id)
       IN  /\ vm_last' = [NoStep EXCEPT !.op = op, !.instr = InstrAt(Top.ip),
                                        !.zero = (rhs = 0), !.dest = dest,
                                        !.locals = Top.locals,
                                        !.errors = log_errors]
           /\ IF InFrame(Top, dest) /\ InFrame(Top, lhs_id) /\ InFrame(Top, rhs_id)
              THEN /\ log_errors' = IF DivisionByZeroTest(TRUE, rhs)
                                    THEN log_errors + 1 ELSE log_errors
                   /\ \E result \in OpArithmetic(op, LocalAt(Top, dest), lhs, rhs) :
                         frames' = [frames EXCEPT ![Len(frames)] =
                                       [StoreLocal(@, dest, result) EXCEPT
                                           !.ip = ip1 + 3 * kLocalIdSize]]
                   /\ UNCHANGED <<module_, vm_status, heap_frames>>
              ELSE Raise

\* DO_GEN_ARITHMETIC_OP(Add, false, int8_t): no test of the divisor; the sum
\* wraps to eight bits.
OpAdd ==
    /\ vm_status = "running"
    /\ READ_OP = Bytecode.Add
    /\ vm_last' = [NoStep EXCEPT !.op = "Add", !.instr = InstrAt(Top.ip)]
    /\ LET ip1 == Top.ip + kOpcodeSize
           dest == Read(ip1, kLocalIdSize)
           lhs_id == Read(ip1 + kLocalIdSize, kLocalIdSize)
           rhs_id == Read(ip1 + 2 * kLocalIdSize, kLocalIdSize)
           sum == LocalAt(Top, lhs_id) + LocalAt(Top, rhs_id)
       IN  IF InFrame(Top, dest) /\ InFrame(Top, lhs_id) /\ InFrame(Top, rhs_id)
           THEN /\ frames' = [frames EXCEPT ![Len(frames)] =
                                 [StoreLocal(@, dest, ((sum + 128) % 256) - 128)
                                     EXCEPT !.ip = ip1 + 3 * kLocalIdSize]]
                /\ UNCHANGED <<module_, vm_status, log_errors, heap_frames>>
           ELSE Raise

\* OpJump(), OpJumpIfTrue(cond), OpJumpIfFalse(cond): whether the jump is
\* taken.
OpJumpTaken(op, cond) ==
    CASE op = "Jump" -> TRUE
      [] op = "JumpIfTrue" -> cond
      [] op = "JumpIfFalse" -> ~cond

\* Mutant of JumpTarget: the offset counts from the end of the operand.
JumpTarget_PostOffset(ip, skip) == ip + kJmpOffsetSize + skip

\* ip += skip, with ip at the offset operand that was peeked.
JumpTarget(ip, skip) == ip + skip

\* OP(Jump): the offset is peeked, with ip at the offset operand, and added
\* to ip.
OpJump ==
    /\ vm_status = "running"
    /\ READ_OP = Bytecode.Jump
    /\ vm_last' = [NoStep EXCEPT !.op = "Jump", !.instr = InstrAt(Top.ip)]
    /\ LET ip1 == Top.ip + kOpcodeSize
           skip == Read(ip1, kJmpOffsetSize)
       IN  frames' = [frames EXCEPT ![Len(frames)].ip =
                         IF OpJumpTaken("Jump", TRUE) THEN JumpTarget(ip1, skip)
                         ELSE ip1]
    /\ UNCHANGED <<module_, vm_status, log_errors, heap_frames>>

\* Mutant of JumpIfTarget: the offset is read, not peeked, before it is added.
JumpIfTarget_OffsetRead(taken, ip, skip) ==
    IF taken THEN ip + kJmpOffsetSize + skip ELSE ip + kJmpOffsetSize

\* The two arms of OP(JumpIfTrue) and OP(JumpIfFalse), with ip at the offset
\* operand: ip += skip, or READ_JMP_OFFSET().
JumpIfTarget(taken, ip, skip) ==
    IF taken THEN ip + skip ELSE ip + kJmpOffsetSize

\* OP(JumpIfTrue), OP(JumpIfFalse)
OpJumpIf(op) ==
    /\ vm_status = "running"
    /\ READ_OP = Bytecode[op]
    /\ vm_last' = [NoStep EXCEPT !.op = op, !.instr = InstrAt(Top.ip),
                                 !.locals = Top.locals]
    /\ LET ip1 == Top.ip + kOpcodeSize
           cond_id == Read(ip1, kLocalIdSize)
           ip2 == ip1 + kLocalIdSize
           skip == Read(ip2, kJmpOffsetSize)
       IN  IF InFrame(Top, cond_id)
           THEN /\ frames' = [frames EXCEPT ![Len(frames)].ip =
                                 JumpIfTarget(OpJumpTaken(op, LocalAt(Top, cond_id) # 0),
                                              ip2, skip)]
                /\ UNCHANGED <<module_, vm_status, log_errors, heap_frames>>
           ELSE Raise

\* Mutant of ExecuteCall: the ip that is returned is one argument short.
ExecuteCall_OneParamShort(ip, caller) ==
    LET func_id == Read(ip, kFuncIdSize)
        num_params == Read(ip + kFuncIdSize, kUImm2Size)
        ip2 == ip + kFuncIdSize + kUImm2Size
        param(i) == Read(ip2 + (i - 1) * kLocalIdSize, kLocalIdSize)
    IN  [func_id |-> func_id,
         in_frame |-> \A i \in 1..num_params : InFrame(caller, param(i)),
         raw_frame |-> [i \in 1..NumLocals |->
                           IF i <= num_params THEN LocalAt(caller, param(i))
                           ELSE Uninitialized],
         ip |-> ip2 + (num_params - 1) * kLocalIdSize]

\* VM::ExecuteCall up to the call of Interpret: the function id and the
\* argument count are read, then one local id per argument, whose value is
\* copied into the callee's frame; ip is then past the operands.
ExecuteCall(ip, caller) ==
    LET func_id == Read(ip, kFuncIdSize)
        num_params == Read(ip + kFuncIdSize, kUImm2Size)
        ip2 == ip + kFuncIdSize + kUImm2Size
        param(i) == Read(ip2 + (i - 1) * kLocalIdSize, kLocalIdSize)
    IN  [func_id |-> func_id,
         in_frame |-> \A i \in 1..num_params : InFrame(caller, param(i)),
         raw_frame |-> [i \in 1..NumLocals |->
                           IF i <= num_params THEN LocalAt(caller, param(i))
                           ELSE Uninitialized],
         ip |-> ip2 + num_params * kLocalIdSize]

\* OP(Call): ExecuteCall enters Interpret on the callee's bytecode with the
\* callee's frame; the caller's activation waits with the ip ExecuteCall
\* will return.
OpCall ==
    /\ vm_status = "running"
    /\ READ_OP = Bytecode.Call
    /\ vm_last' = [NoStep EXCEPT !.op = "Call", !.instr = InstrAt(Top.ip),
                                 !.locals = Top.locals]
    /\ LET call == ExecuteCall(Top.ip + kOpcodeSize, Top)
           callee == NewFrame(call.func_id, call.raw_frame,
                              [instr |-> InstrAt(Top.ip), locals |-> Top.locals])
       IN  IF call.in_frame
           THEN /\ frames' = Append([frames EXCEPT ![Len(frames)].ip = call.ip],
                                    callee)
                /\ heap_frames' = heap_frames + (IF callee.used_heap THEN 1 ELSE 0)
                /\ UNCHANGED <<module_, vm_status, log_errors>>
           ELSE Raise

\* OP(Return): Interpret returns; in ExecuteCall (in InvokeFunction for the
\* entry function) the frame's buffer is freed if it came from the heap,
\* and the caller dispatches from the ip that is returned.  The return of
\* the entry function ends InvokeFunction.
OpReturn ==
    /\ vm_status = "running"
    /\ READ_OP = Bytecode.Return
    /\ frames' = SubSeq(frames, 1, Len(frames) - 1)
    /\ heap_frames' = heap_frames - (IF Top.used_heap THEN 1 ELSE 0)
    /\ vm_status' = IF Len(frames) = 1 THEN "done" ELSE "running"
    /\ vm_last' = [NoStep EXCEPT !.op = "Return", !.instr = InstrAt(Top.ip),
                                 !.site = Top.site]
    /\ UNCHANGED <<module_, log_errors>>

\* A module is loaded; nothing has run.
VMInit ==
    /\ SorterInit /\ AggInit /\ JoinInit /\ RestIdle
    /\ module_ \in Modules
    /\ frames = <<>>
    /\ vm_status = "idle"
    /\ log_errors = 0
    /\ heap_frames = 0
    /\ vm_last = NoStep

VMNext ==
    \/ (\E args \in [1..2 -> Values] : InvokeFunction(args)) /\ UNCHANGED nonVmVars
    \/ OpAssignImm1 /\ UNCHANGED nonVmVars
    \/ DO_GEN_ARITHMETIC_OP("Div") /\ UNCHANGED nonVmVars
    \/ DO_GEN_ARITHMETIC_OP("Rem") /\ UNCHANGED nonVmVars
    \/ OpCall /\ UNCHANGED nonVmVars
    \/ OpReturn /\ UNCHANGED nonVmVars

\* The entry function of a module is invoked once and runs to its Return.
VMSpec == VMInit /\ [][VMNext]_vars

\* ---- modules with jumps and heap frames ------------------------------------
\* The entry function of such a module assigns a condition local, jumps
\* forward on it over an assignment, calls function 1, jumps backward on the
\* condition to the assignment, jumps unconditionally (over an assignment
\* to the Return, to itself, or with the offset 0), and returns.  Function 1 assigns a
\* local (its last one, or the first byte past its frame) and returns.  A
\* jump names its target instruction; 0 stands for "no label, offset 0".
ControlBody(p) ==
    << [op |-> "AssignImm1", dest |-> 2, imm |-> p.c0],
       [op |-> p.first, cond |-> 2, target |-> 4],
       [op |-> "AssignImm1", dest |-> 0, imm |-> 1],
       [op |-> "Call", func_id |-> 1, params |-> <<>>],
       [op |-> p.second, cond |-> 2, target |-> 3],
       [op |-> "Jump", target |-> p.jump],
       [op |-> "AssignImm1", dest |-> 1, imm |-> 2],
       [op |-> "Return"],
       [op |-> "AssignImm1", dest |-> p.callee_dest, imm |-> 1],
       [op |-> "Return"] >>

\* Where the jump offset operand of a jump instruction starts, relative to
\* the instruction.
JumpOperandPos(op) == IF op = "Jump" THEN kOpcodeSize ELSE kOpcodeSize + kLocalIdSize

\* The emitter's label binding: a jump's offset is the distance from the
\* start of its offset operand to the start of its target.
BindLabels(instrs) ==
    LET IsJump(i) == instrs[i].op \in {"Jump", "JumpIfTrue", "JumpIfFalse"}
        placed == [i \in 1..Len(instrs) |->
                      IF IsJump(i)
                      THEN [op |-> instrs[i].op, cond |-> 0, offset |-> 0]
                      ELSE instrs[i]]
        at == InstrOffsets(placed, 0)
    IN  [i \in 1..Len(instrs) |->
            IF ~IsJump(i) THEN instrs[i]
            ELSE LET offset == IF instrs[i].target = 0 THEN 0
                               ELSE at[instrs[i].target]
                                    - (at[i] + JumpOperandPos(instrs[i].op))
                 IN  IF instrs[i].op = "Jump"
                     THEN [op |-> "Jump", offset |-> offset]
                     ELSE [op |-> instrs[i].op, cond |-> instrs[i].cond,
                           offset |-> offset]]

\* The frame sizes of the model: the model's locals, or one byte more than
\* the largest frame that is put on the stack.
FrameSizes == {NumLocals, kMaxStackAllocSize + 1}

ControlModules ==
    {LET instrs == BindLabels(ControlBody(
                       [c0 |-> c0, first |-> jumps[1], second |-> jumps[2],
                        jump |-> jump,
                        callee_dest |-> IF bad THEN sizes[1] ELSE NumLocals - 1]))
         at == InstrOffsets(instrs, 0)
     IN  [functions |-> [f \in 0..1 |->
                            [bytecode_offset |-> IF f = 0 THEN 0 ELSE at[9],
                             num_params |-> IF f = 0 THEN 2 ELSE 0,
                             frame_size |-> sizes[f]]],
          code |-> Stream(EmitAll(instrs)),
          instrs |-> instrs,
          starts |-> at] :
        c0 \in 0..1, jumps \in [1..2 -> {"JumpIfTrue", "JumpIfFalse"}],
        jump \in {0, 6, 8}, sizes \in [0..1 -> FrameSizes], bad \in BOOLEAN}

ControlInit ==
    /\ SorterInit /\ AggInit /\ JoinInit /\ RestIdle
    /\ module_ \in ControlModules
    /\ frames = <<>>
    /\ vm_status = "idle"
    /\ log_errors = 0
    /\ heap_frames = 0
    /\ vm_last = NoStep

ControlNext ==
    \/ (\E args \in [1..2 -> Values] : InvokeFunction(args)) /\ UNCHANGED nonVmVars
    \/ OpAssignImm1 /\ UNCHANGED nonVmVars
    \/ OpAdd /\ UNCHANGED nonVmVars
    \/ OpJump /\ UNCHANGED nonVmVars
    \/ OpJumpIf("JumpIfTrue") /\ UNCHANGED nonVmVars
    \/ OpJumpIf("JumpIfFalse") /\ UNCHANGED nonVmVars
    \/ OpCall /\ UNCHANGED nonVmVars
    \/ OpReturn /\ UNCHANGED nonVmVars

\* The entry function of a module with jumps is invoked once.
ControlSpec == ControlInit /\ [][ControlNext]_vars

(***************************************************************************)
(* The tpl executable: main, RunFile, RunRepl and CompileAndRun.  A source  *)
(* is the sequence of its lines.                                           *)
(***************************************************************************)
kExitKeyword == ".exit"

\* The lines of the model: a blank line, the exit keyword, a line that
\* declares main, a line the parser rejects, a line the type checker rejects.
Lines == {"", kExitKeyword, "fun main", "syntax error", "type error"}

SourcesUpTo(n) == UNION {[1..k -> Lines] : k \in 0..n}

\* CompileAndRun(source): what the call does, as a record.  Errors of the
\* parser or of the type checker are printed and end the call; a module
\* without main ends it too; otherwise main is executed by the interpreter
\* and again as compiled code.  The call returns nothing to its caller.
CompileAndRun(source) ==
    LET has(l) == \E i \in 1..Len(source) : source[i] = l
        outcome == IF has("syntax error") \/ has(kExitKeyword) THEN "parse error"
                   ELSE IF has("type error") THEN "type error"
                   ELSE IF ~has("fun main") THEN "no main"
                   ELSE "ran"
    IN  [source |-> source, outcome |-> outcome,
         diagnostics |-> outcome \in {"parse error", "type error"},
         executions |-> IF outcome = "ran" THEN 2 ELSE 0]

\* main with one argument: RunFile, ShutdownTPL, return 0.
RunFile ==
    /\ tpl_pc = "main"
    /\ tpl_args.argc = 2
    /\ tpl_runs' = IF tpl_args.file.readable
                   THEN Append(tpl_runs, CompileAndRun(tpl_args.file.source))
                   ELSE tpl_runs
    /\ tpl_pc' = "exited"
    /\ tpl_exit' = 0
    /\ UNCHANGED <<tpl_args, tpl_stdin, tpl_input, tpl_read>>

\* main without arguments enters RunRepl; with more than one argument it
\* runs nothing: ShutdownTPL, return 0.
Main ==
    /\ tpl_pc = "main"
    /\ tpl_args.argc # 2
    /\ IF tpl_args.argc = 1
       THEN tpl_pc' = "repl" /\ tpl_exit' = tpl_exit
       ELSE tpl_pc' = "exited" /\ tpl_exit' = 0
    /\ UNCHANGED <<tpl_args, tpl_stdin, tpl_input, tpl_read, tpl_runs>>

\* Mutant of EndOfProgram: the input is compiled after every line.
EndOfProgram_EveryLine(line) == TRUE

\* The condition on which RunRepl's do-while ends: !line.empty() is false.
EndOfProgram(line) == line = ""

\* One turn of RunRepl's do-while: the prompt, std::getline (which yields
\* the empty line at the end of input), the exit keyword returning to main
\* (ShutdownTPL, return 0), the line appended to the input, and after an
\* empty line CompileAndRun on the input, which then starts anew.
RunRepl ==
    /\ tpl_pc = "repl"
    /\ Len(tpl_read) < MaxReads
    /\ LET line == IF tpl_stdin = <<>> THEN "" ELSE Head(tpl_stdin)
           input == Append(tpl_input, line)
       IN  /\ tpl_stdin' = IF tpl_stdin = <<>> THEN <<>> ELSE Tail(tpl_stdin)
           /\ tpl_read' = Append(tpl_read, line)
           /\ IF line = kExitKeyword
              THEN /\ tpl_pc' = "exited"
                   /\ tpl_exit' = 0
                   /\ UNCHANGED <<tpl_input, tpl_runs>>
              ELSE /\ tpl_input' = IF EndOfProgram(line) THEN <<>> ELSE input
                   /\ tpl_runs' = IF EndOfProgram(line)
                                  THEN Append(tpl_runs, CompileAndRun(input))
                                  ELSE tpl_runs
                   /\ UNCHANGED <<tpl_pc, tpl_exit>>
    /\ UNCHANGED tpl_args

\* The executable is started: with a file name (of a file that can or
\* cannot be read), with too many arguments, or with none and some lines
\* on standard input.
TplInit ==
    /\ SorterInit /\ AggInit /\ JoinInit /\ VMIdle /\ MaskIdle /\ VopIdle /\ SemaIdle
    /\ \/ /\ tpl_args \in [argc : {2, 3},
                           file : [readable : BOOLEAN, source : SourcesUpTo(MaxLines - 1)]]
          /\ tpl_stdin = <<>>
       \/ /\ tpl_args = [argc |-> 1, file |-> [readable |-> FALSE, source |-> <<>>]]
          /\ tpl_stdin \in SourcesUpTo(MaxLines)
    /\ tpl_input = <<>>
    /\ tpl_pc = "main"
    /\ tpl_exit = -1
    /\ tpl_read = <<>>
    /\ tpl_runs = <<>>

TplNext ==
    \/ RunFile /\ UNCHANGED nonTplVars
    \/ Main /\ UNCHANGED nonTplVars
    \/ RunRepl /\ UNCHANGED nonTplVars

TplSpec == TplInit /\ [][TplNext]_vars

(***************************************************************************)
(* util::VectorUtil: conversions between the selection-vector, byte-vector *)
(* and bit-vector forms of a mask.  Vectors are sequences, element i of    *)
(* the code at position i + 1; a byte is 0..255, a word 0..2^WordBits - 1. *)
(***************************************************************************)
\* Bit j of x.
BitAt(x, j) == (x \div (2 ^ j)) % 2

\* The word whose bit j is bits[j + 1].
RECURSIVE WordOf(_)
WordOf(bits) ==
    IF bits = <<>> THEN 0 ELSE Head(bits) + 2 * WordOf(Tail(bits))

\* The members of a set of numbers in ascending order.
RECURSIVE Ascending(_)
Ascending(S) ==
    IF S = {} THEN <<>>
    ELSE LET m == CHOOSE x \in S : \A y \in S : x <= y
         IN  <<m>> \o Ascending(S \ {m})

DivRoundUp(a, b) == (a + b - 1) \div b

\* VectorUtil::SelectionVectorToByteVector(n, sel_vector, byte_vector)
SelectionVectorToByteVector(n, sel_vector, byte_vector) ==
    [i \in 1..Len(byte_vector) |->
        IF \E j \in 1..n : sel_vector[j] = i - 1 THEN 255 ELSE byte_vector[i]]

\* VectorUtil::ByteVectorToSelectionVector(n, byte_vector, sel_vector, size):
\* the main loop takes Lanes bytes a turn, extracts bit 1 of each, and
\* stores the positions the lookup table gives for that mask; the tail
\* stores i and keeps it if the byte is 0xFF.  The result is the first
\* size elements of sel_vector.
ByteVectorToSelectionVector(n, byte_vector) ==
    LET main == (n \div Lanes) * Lanes
        Chunk(c) == LET mask == {j \in 0..(Lanes - 1) :
                                    BitAt(byte_vector[c * Lanes + j + 1], 1) = 1}
                        match_pos == Ascending(mask)
                    IN  [m \in 1..Len(match_pos) |-> c * Lanes + match_pos[m]]
        MainLoop[c \in 0..(n \div Lanes)] ==
            IF c = 0 THEN <<>> ELSE MainLoop[c - 1] \o Chunk(c - 1)
        Tail_[i \in main..n] ==
            IF i = main THEN MainLoop[n \div Lanes]
            ELSE Tail_[i - 1] \o (IF byte_vector[i] = 255 THEN <<i - 1>> ELSE <<>>)
    IN  Tail_[n]

\* VectorUtil::ByteVectorToBitVector(n, byte_vector, bit_vector): the main
\* loop builds a whole word from the top bits of WordBits bytes; the tail
\* sets bit i % WordBits of the last word to that bit of the sign-extended
\* byte, and leaves the other bits of the word as they are.
ByteVectorToBitVector(n, byte_vector, bit_vector) ==
    LET full == n \div WordBits
        SignExtBit(val, j) == IF j < 8 THEN BitAt(val, j) ELSE BitAt(val, 7)
    IN  [k \in 1..Len(bit_vector) |->
            IF k <= full
            THEN WordOf([j \in 1..WordBits |->
                            BitAt(byte_vector[(k - 1) * WordBits + j], 7)])
            ELSE IF k = full + 1
            THEN WordOf([j \in 1..WordBits |->
                            IF full * WordBits + j <= n
                            THEN SignExtBit(byte_vector[full * WordBits + j], j - 1)
                            ELSE BitAt(bit_vector[k], j - 1)])
            ELSE bit_vector[k]]

\* VectorUtil::BitVectorToByteVector(n, bit_vector, byte_vector): the main
\* loop expands n / WordBits whole words, the scalar loop the n % WordBits
\* low bits of the last word.
BitVectorToByteVector(n, bit_vector) ==
    LET full == n \div WordBits
        tail_size == n % WordBits
    IN  [i \in 1..(full * WordBits) |->
            IF BitAt(bit_vector[((i - 1) \div WordBits) + 1], (i - 1) % WordBits) = 1
            THEN 255 ELSE 0]
        \o [i \in 1..tail_size |->
               IF BitAt(bit_vector[full + 1], i - 1) = 1 THEN 255 ELSE 0]

\* Mutant of SelIndex: the word's position is left out.
SelIndex_NoWord(i, r) == r

\* The index BitVectorToSelectionVector stores for bit r of word i.
SelIndex(i, r) == i * WordBits + r

\* VectorUtil::BitVectorToSelectionVector(n, bit_vector, sel_vector, size):
\* for each of the DivRoundUp(n, WordBits) words, the set bits from the
\* lowest up.
BitVectorToSelectionVector(n, bit_vector) ==
    LET num_words == DivRoundUp(n, WordBits)
        Word(i) == LET set == Ascending({r \in 0..(WordBits - 1) :
                                            BitAt(bit_vector[i + 1], r) = 1})
                   IN  [m \in 1..Len(set) |-> SelIndex(i, set[m])]
        Words[i \in 0..num_words] ==
            IF i = 0 THEN <<>> ELSE Words[i - 1] \o Word(i - 1)
    IN  Words[num_words]

\* A mask over n positions in each form, as its producers build it, and
\* the cleared vectors the conversions write into.
MaskAs(form, n, set) ==
    CASE form = "sel" -> Ascending(set)
      [] form = "byte" -> [i \in 1..n |-> IF i - 1 \in set THEN 255 ELSE 0]
      [] form = "bit" ->
            [k \in 1..DivRoundUp(n, WordBits) |->
                WordOf([j \in 1..WordBits |->
                           IF (k - 1) * WordBits + j - 1 \in set THEN 1 ELSE 0])]

\* One conversion of the mask from its form into the form to.
Convert(to) ==
    /\ mask_hops < MaxHops
    /\ LET n == mask_in.n
           from == mask_rep.form
           data == mask_rep.data
       IN  /\ <<from, to>> \in {<<"sel", "byte">>, <<"byte", "sel">>,
                                <<"byte", "bit">>, <<"bit", "byte">>,
                                <<"bit", "sel">>}
           /\ mask_rep' =
                 [form |-> to,
                  data |->
                     CASE from = "sel" ->
                             SelectionVectorToByteVector(Len(data), data,
                                                         MaskAs("byte", n, {}))
                       [] from = "byte" /\ to = "sel" ->
                             ByteVectorToSelectionVector(n, data)
                       [] from = "byte" /\ to = "bit" ->
                             ByteVectorToBitVector(n, data, MaskAs("bit", n, {}))
                       [] from = "bit" /\ to = "byte" ->
                             BitVectorToByteVector(n, data)
                       [] from = "bit" /\ to = "sel" ->
                             BitVectorToSelectionVector(n, data)]
    /\ mask_hops' = mask_hops + 1
    /\ UNCHANGED mask_in

\* Some mask over some n <= MaxN positions, given in some form.
MaskInit ==
    /\ SorterInit /\ AggInit /\ JoinInit /\ VMIdle /\ TplIdle /\ VopIdle /\ SemaIdle
    /\ mask_in \in {[n |-> n, set |-> set, form |-> form] :
                       n \in {m \in 0..MaxN : TRUE},
                       set \in SUBSET (0..(MaxN - 1)),
                       form \in {"sel", "byte", "bit"}}
    /\ mask_in.set \subseteq 0..(mask_in.n - 1)
    /\ mask_rep = [form |-> mask_in.form,
                   data |-> MaskAs(mask_in.form, mask_in.n, mask_in.set)]
    /\ mask_hops = 0

MaskNext ==
    \/ Convert("byte") /\ UNCHANGED nonMaskVars
    \/ Convert("sel") /\ UNCHANGED nonMaskVars
    \/ Convert("bit") /\ UNCHANGED nonMaskVars

MaskSpec == MaskInit /\ [][MaskNext]_vars

(***************************************************************************)
(* Boolean logic over vectors whose elements may be NULL.  An element is   *)
(* [val, null]: val is the byte in the data array, which a NULL element    *)
(* has too, null its bit in the NULL mask.                                 *)
(***************************************************************************)
\* And::Apply
And(left, right) == left /\ right

\* Mutant of AndNullable: the result is NULL when either input is.
AndNullable_AnyNull(left, right, left_null, right_null) == left_null \/ right_null

\* AndNullable::Apply: whether the conjunction is NULL.
AndNullable(left, right, left_null, right_null) ==
    (left_null /\ (right_null \/ right)) \/ (right_null /\ left)

\* Or::Apply
Or(left, right) == left \/ right

\* OrNullable::Apply: whether the disjunction is NULL.
OrNullable(left, right, left_null, right_null) ==
    (left_null /\ (right_null \/ ~right)) \/ (right_null /\ ~left)

Elements == [val : BOOLEAN, null : BOOLEAN]

\* VectorOps::And / VectorOps::Or on two vectors of the same count: element
\* by element, the value from the plain functor and the NULL bit from the
\* nullable one.
BooleanLogicOperation(op) ==
    /\ vop_in.op = op
    /\ ~vop_out.done
    /\ vop_out' =
          [done |-> TRUE,
           result |->
              [i \in 1..Len(vop_in.left) |->
                  LET l == vop_in.left[i]
                      r == vop_in.right[i]
                  IN  IF op = "And"
                      THEN [val |-> And(l.val, r.val),
                            null |-> AndNullable(l.val, r.val, l.null, r.null)]
                      ELSE [val |-> Or(l.val, r.val),
                            null |-> OrNullable(l.val, r.val, l.null, r.null)]]]
    /\ UNCHANGED vop_in

\* Two vectors of the same count, 1..MaxCount, of elements of every kind.
LogicInit ==
    /\ SorterInit /\ AggInit /\ JoinInit /\ VMIdle /\ TplIdle /\ MaskIdle /\ SemaIdle
    /\ \E count \in 1..MaxCount :
          vop_in \in [op : {"And", "Or"},
                      left : [1..count -> Elements],
                      right : [1..count -> Elements]]
    /\ vop_out = [done |-> FALSE]

LogicNext ==
    \/ BooleanLogicOperation("And") /\ UNCHANGED nonVopVars
    \/ BooleanLogicOperation("Or") /\ UNCHANGED nonVopVars

LogicSpec == LogicInit /\ [][LogicNext]_vars

(***************************************************************************)
(* Fused gather+select (gather_select.cpp), at TypeId::Boolean.  Element i *)
(* of the code is position i + 1.  An input element is [val, null]; an     *)
(* element of the pointer vector is [null, valid, pointee]: its bit in the *)
(* NULL mask, whether the pointer in the data array can be dereferenced at *)
(* the offset, and the value that is there if it can.                      *)
(***************************************************************************)
ComparisonOperators ==
    {"Equal", "GreaterThan", "GreaterThanEqual", "LessThan", "LessThanEqual", "NotEqual"}

\* Op{}(left, right) for the comparison functors, false < true.
Op(cmp, left, right) ==
    LET l == IF left THEN 1 ELSE 0
        r == IF right THEN 1 ELSE 0
    IN  CASE cmp = "Equal" -> l = r
          [] cmp = "GreaterThan" -> l > r
          [] cmp = "GreaterThanEqual" -> l >= r
          [] cmp = "LessThan" -> l < r
          [] cmp = "LessThanEqual" -> l <= r
          [] cmp = "NotEqual" -> l # r

\* TupleIdList::Filter(f): the members of the list that f accepts; f is
\* given as its value at every position.
Filter(tid_list, f) == {i \in tid_list : f[i]}

\* The values *(raw_pointers[i] + offset) can read, element by element: the
\* pointee of a pointer that can be dereferenced, anything otherwise.
Gathered(pointers) ==
    {g \in [1..Len(pointers) -> BOOLEAN] :
        \A i \in 1..Len(pointers) : pointers[i].valid => g[i] = pointers[i].pointee}

\* GatherAndSelectOperation<Op>(input, pointers, offset, tid_list) in the
\* form given: CheckGatherAndSelect passes on the inputs drawn; the constant
\* form clears the list on a NULL constant and otherwise filters against
\* element 0, the vector form strips the input's NULLs and filters against
\* element i.  The NULL mask of pointers is not read.  Dereferencing a
\* pointer that cannot be dereferenced may also end the process.
GatherAndSelectOperation(form) ==
    /\ vop_in.op = "GatherAndSelect"
    /\ vop_in.form = form
    /\ ~vop_out.done
    /\ LET input == vop_in.input
           pointers == vop_in.pointers
           stripped == IF form = "constant"
                       THEN IF input[1].null THEN {} ELSE vop_in.tid_list
                       ELSE vop_in.tid_list \ {i \in 1..Len(input) : input[i].null}
           Target(i) == IF form = "constant" THEN input[1].val ELSE input[i].val
       IN  \/ \E gathered \in Gathered(pointers) :
                 LET Match == [i \in 1..Len(pointers) |->
                                 Op(vop_in.cmp, gathered[i], Target(i))]
                 IN  vop_out' = [done |-> TRUE, status |-> "returned",
                                 tid_list |-> Filter(stripped, Match)]
           \/ /\ \E i \in stripped : ~pointers[i].valid
              /\ vop_out' = [done |-> TRUE, status |-> "undefined",
                             tid_list |-> vop_in.tid_list]
    /\ UNCHANGED vop_in

\* An input vector, a pointer vector and a list over the same 1..MaxCount
\* positions; an element of the pointer vector that is not NULL can be
\* dereferenced.
GatherInit ==
    /\ SorterInit /\ AggInit /\ JoinInit /\ VMIdle /\ TplIdle /\ MaskIdle /\ SemaIdle
    /\ \E count \in 1..MaxCount :
          vop_in \in [op : {"GatherAndSelect"},
                      form : {"constant", "vector"},
                      cmp : ComparisonOperators,
                      input : [1..count -> {e \in Elements : e.null => ~e.val}],
                      pointers : [1..count ->
                                     {e \in [null : BOOLEAN, valid : BOOLEAN,
                                             pointee : BOOLEAN] :
                                         /\ ~e.null => e.valid
                                         /\ ~e.valid => ~e.pointee}],
                      tid_list : SUBSET (1..count)]
    /\ vop_out = [done |-> FALSE]

GatherNext ==
    \/ GatherAndSelectOperation("constant") /\ UNCHANGED nonVopVars
    \/ GatherAndSelectOperation("vector") /\ UNCHANGED nonVopVars

GatherSpec == GatherInit /\ [][GatherNext]_vars

(***************************************************************************)
(* sema::Sema: the semantic check of a call to a builtin.  A type is a      *)
(* record [kind, ptr]; an argument is given by its type, "string" being a   *)
(* string literal and "unresolved" an argument whose resolution fails.      *)
(* The check functions of the table iterator, the vector projection         *)
(* iterator, the sorter's sorts and concat are modelled; CheckBuiltinCall   *)
(* dispatches the other builtins to check functions of their own.           *)
(***************************************************************************)
GetBuiltinType(kind) == [kind |-> kind, ptr |-> FALSE]

PointerTo(type) == [type EXCEPT !.ptr = TRUE]

\* The type of a call expression the checker has not typed.
no_type == GetBuiltinType("null")

IsSpecificBuiltin(type, kind) == type = GetBuiltinType(kind)

IsPointerToSpecificBuiltin(type, kind) == type = PointerTo(GetBuiltinType(kind))

IsIntegerType(type) == ~type.ptr /\ type.kind \in {"Int32", "Uint32"}

TableIterBuiltins ==
    {"TableIterInit", "TableIterAdvance", "TableIterGetVPI", "TableIterClose"}

VPISetBuiltins ==
    {"VPISetBool", "VPISetTinyInt", "VPISetSmallInt", "VPISetInt",
     "VPISetBigInt", "VPISetReal", "VPISetDouble", "VPISetDate", "VPISetString"}

VPIGetBuiltins ==
    {"VPIGetBool", "VPIGetTinyInt", "VPIGetSmallInt", "VPIGetInt",
     "VPIGetBigInt", "VPIGetReal", "VPIGetDouble", "VPIGetDate",
     "VPIGetString", "VPIGetPointer"}

VPIBuiltins ==
    {"VPIInit", "VPIFree", "VPIIsFiltered", "VPIGetSelectedRowCount",
     "VPIGetVectorProjection", "VPIHasNext", "VPIAdvance", "VPISetPosition",
     "VPIMatch", "VPIReset"} \cup VPIGetBuiltins \cup VPISetBuiltins

SorterSortBuiltins == {"SorterSort", "SorterSortParallel", "SorterSortTopKParallel"}

\* The builtins of the model.
Builtins == {"Concat"} \cup TableIterBuiltins \cup VPIBuiltins \cup SorterSortBuiltins

\* Context::IsBuiltinFunction: the names of the model, one of which names no
\* builtin.
FuncNames == Builtins \cup {"notABuiltin"}

\* What a check function leaves: the call's type, the number of errors it
\* reported, the argument indexes it read, and how it ended.
Reported(reads) ==
    [type |-> no_type, errors |-> 1, reads |-> reads, status |-> "returned"]

Typed(type, reads) ==
    [type |-> type, errors |-> 0, reads |-> reads, status |-> "returned"]

Untyped(reads) ==
    [type |-> no_type, errors |-> 0, reads |-> reads, status |-> "returned"]

Unreachable(reads) ==
    [type |-> no_type, errors |-> 0, reads |-> reads, status |-> "unreachable"]

\* call->Arguments()[index]: beyond the arguments the read is out of the
\* bounds of the vector and yields whatever garbage[index] stands for.
Argument(args, index, garbage) ==
    IF index < Len(args) THEN args[index + 1] ELSE garbage[index]

CheckArgCount(args, expected_arg_count) == Len(args) = expected_arg_count

CheckArgCountAtLeast(args, expected_arg_count) == Len(args) >= expected_arg_count

CheckBuiltinConcat(args, garbage) ==
    LET bad == {i \in 1..(Len(args) - 1) : ~IsSpecificBuiltin(args[i + 1], "StringVal")}
    IN  IF ~CheckArgCountAtLeast(args, 3) THEN Reported({})
        ELSE IF IsSpecificBuiltin(Argument(args, 0, garbage), "ExecutionContext")
             THEN Untyped({0})
        ELSE IF bad # {}
             THEN Reported(0..(CHOOSE i \in bad : \A j \in bad : i <= j))
        ELSE Typed(GetBuiltinType("StringVal"), 0..(Len(args) - 1))

CheckBuiltinTableIterCall(builtin, args, garbage) ==
    IF ~IsPointerToSpecificBuiltin(Argument(args, 0, garbage), "TableVectorIterator")
    THEN Reported({0})
    ELSE CASE builtin = "TableIterInit" ->
                 IF Argument(args, 1, garbage) # GetBuiltinType("string")
                 THEN Reported({0, 1})
                 ELSE Typed(GetBuiltinType("Nil"), {0, 1})
           [] builtin = "TableIterAdvance" -> Typed(GetBuiltinType("Bool"), {0})
           [] builtin = "TableIterGetVPI" ->
                 Typed(PointerTo(GetBuiltinType("VectorProjectionIterator")), {0})
           [] builtin = "TableIterClose" -> Typed(GetBuiltinType("Nil"), {0})
           [] OTHER -> Unreachable({0})

\* The SQL type a VPISet builtin takes as its second argument.
sql_kind(builtin) ==
    IF builtin \in {"VPISetReal", "VPISetDouble"} THEN "Real"
    ELSE IF builtin = "VPISetDate" THEN "Date"
    ELSE IF builtin = "VPISetString" THEN "StringVal"
    ELSE "Integer"

CheckBuiltinVPICall(builtin, args, garbage) ==
    LET arg(i) == Argument(args, i, garbage)
        Get(kind) == IF ~CheckArgCount(args, 2) THEN Reported({0})
                     ELSE Typed(GetBuiltinType(kind), {0})
    IN
    IF ~CheckArgCountAtLeast(args, 1) THEN Reported({})
    ELSE IF ~IsPointerToSpecificBuiltin(arg(0), "VectorProjectionIterator")
    THEN Reported({0})
    ELSE CASE builtin = "VPIInit" ->
                 IF ~CheckArgCountAtLeast(args, 2) THEN Reported({0})
                 ELSE IF ~IsPointerToSpecificBuiltin(arg(1), "VectorProjection")
                      THEN Reported({0, 1})
                 ELSE IF Len(args) > 2
                         /\ ~IsPointerToSpecificBuiltin(arg(2), "TupleIdList")
                      THEN Reported({0, 1, 2})
                 ELSE Typed(GetBuiltinType("Nil"),
                            IF Len(args) > 2 THEN {0, 1, 2} ELSE {0, 1})
           [] builtin = "VPIFree" ->
                 IF ~CheckArgCount(args, 1) THEN Reported({0})
                 ELSE Typed(GetBuiltinType("Nil"), {0})
           [] builtin \in {"VPIIsFiltered", "VPIHasNext", "VPIAdvance", "VPIReset"} ->
                 Typed(GetBuiltinType("Bool"), {0})
           [] builtin = "VPIGetSelectedRowCount" -> Typed(GetBuiltinType("Uint32"), {0})
           [] builtin = "VPIGetVectorProjection" ->
                 Typed(PointerTo(GetBuiltinType("VectorProjection")), {0})
           [] builtin = "VPISetPosition" ->
                 IF ~CheckArgCount(args, 2) THEN Reported({0})
                 ELSE IF ~IsSpecificBuiltin(arg(1), "Uint32") THEN Reported({0, 1})
                 ELSE Typed(GetBuiltinType("Bool"), {0, 1})
           [] builtin = "VPIMatch" ->
                 IF ~CheckArgCount(args, 2) THEN Reported({0})
                 ELSE IF ~(\/ IsSpecificBuiltin(arg(1), "Boolean")
                           \/ IsSpecificBuiltin(arg(1), "Bool"))
                      THEN Reported({0, 1})
                 ELSE Typed(GetBuiltinType("Nil"), {0, 1})
           [] builtin = "VPIGetBool" -> Get("Boolean")
           [] builtin \in {"VPIGetTinyInt", "VPIGetSmallInt", "VPIGetInt",
                           "VPIGetBigInt"} -> Get("Integer")
           [] builtin \in {"VPIGetReal", "VPIGetDouble"} -> Get("Real")
           [] builtin = "VPIGetDate" -> Get("Date")
           [] builtin = "VPIGetString" -> Get("StringVal")
           [] builtin = "VPIGetPointer" ->
                 IF ~CheckArgCount(args, 2) THEN Reported({0})
                 ELSE Typed(PointerTo(GetBuiltinType("Uint8")), {0})
           [] builtin \in {"VPISetSmallInt", "VPISetInt", "VPISetBigInt",
                           "VPISetReal", "VPISetDouble", "VPISetDate",
                           "VPISetString"} ->
                 IF ~CheckArgCount(args, 3) THEN Reported({0})
                 ELSE IF ~IsSpecificBuiltin(arg(1), sql_kind(builtin))
                      THEN Reported({0, 1})
                 ELSE IF ~IsSpecificBuiltin(arg(2), "Int32") THEN Reported({0, 1, 2})
                 ELSE Untyped({0, 1, 2})
           [] OTHER -> Unreachable({0})

CheckBuiltinSorterSort(builtin, args, garbage) ==
    LET arg(i) == Argument(args, i, garbage)
        uint_type == GetBuiltinType("Uint32")
    IN
    IF ~CheckArgCountAtLeast(args, 1) THEN Reported({})
    ELSE IF ~IsPointerToSpecificBuiltin(arg(0), "Sorter") THEN Reported({0})
    ELSE IF builtin = "SorterSort"
    THEN IF ~CheckArgCount(args, 1) THEN Reported({0})
         ELSE Typed(GetBuiltinType("Nil"), {0})
    ELSE IF builtin \in {"SorterSortParallel", "SorterSortTopKParallel"}
    THEN IF ~IsPointerToSpecificBuiltin(arg(1), "ThreadStateContainer")
         THEN Reported({0, 1})
         ELSE IF arg(2) # uint_type THEN Reported({0, 1, 2})
         ELSE IF builtin = "SorterSortParallel"
         THEN IF ~CheckArgCount(args, 3) THEN Reported({0, 1, 2})
              ELSE Typed(GetBuiltinType("Nil"), {0, 1, 2})
         ELSE IF ~CheckArgCount(args, 4) THEN Reported({0, 1, 2})
         ELSE IF ~IsIntegerType(arg(3)) THEN Reported({0, 1, 2, 3})
         ELSE Typed(GetBuiltinType("Nil"), {0, 1, 2, 3})
    ELSE Unreachable({0})

\* Sema::CheckBuiltinCall on a call of name func with the given arguments:
\* an unknown name is reported; the arguments are resolved, and the check
\* ends at one that does not resolve (its error was reported when it was
\* resolved); the check function of the builtin does the rest.  A read out
\* of the bounds of the arguments may also end the process.
CheckBuiltinCall(func, args, garbage) ==
    LET checked ==
           IF func \in TableIterBuiltins
           THEN CheckBuiltinTableIterCall(func, args, garbage)
           ELSE IF func \in VPIBuiltins THEN CheckBuiltinVPICall(func, args, garbage)
           ELSE IF func \in SorterSortBuiltins
           THEN CheckBuiltinSorterSort(func, args, garbage)
           ELSE CheckBuiltinConcat(args, garbage)
        crash == \E i \in checked.reads :
                    i >= Len(args) /\ garbage[i] = GetBuiltinType("crash")
    IN  IF func \notin Builtins THEN Reported({})
        ELSE IF \E i \in 1..Len(args) : args[i] = GetBuiltinType("unresolved")
        THEN Reported({})
        ELSE IF crash THEN [checked EXCEPT !.status = "crashed"]
        ELSE checked

\* The types the check function of a builtin compares its arguments with,
\* and two more: one no check function of the model accepts, and the
\* argument that does not resolve.
ArgTypes(func) ==
    {GetBuiltinType("Float"), GetBuiltinType("unresolved")} \cup
    (IF func = "Concat"
     THEN {GetBuiltinType("ExecutionContext"), GetBuiltinType("StringVal")}
     ELSE IF func \in TableIterBuiltins
     THEN {PointerTo(GetBuiltinType("TableVectorIterator")), GetBuiltinType("string")}
     ELSE IF func = "VPIInit"
     THEN {PointerTo(GetBuiltinType("VectorProjectionIterator")),
           PointerTo(GetBuiltinType("VectorProjection")),
           PointerTo(GetBuiltinType("TupleIdList"))}
     ELSE IF func = "VPISetPosition"
     THEN {PointerTo(GetBuiltinType("VectorProjectionIterator")),
           GetBuiltinType("Uint32")}
     ELSE IF func = "VPIMatch"
     THEN {PointerTo(GetBuiltinType("VectorProjectionIterator")),
           GetBuiltinType("Boolean"), GetBuiltinType("Bool")}
     ELSE IF func \in VPISetBuiltins
     THEN {PointerTo(GetBuiltinType("VectorProjectionIterator")),
           GetBuiltinType(sql_kind(func)), GetBuiltinType("Int32")}
     ELSE IF func \in VPIBuiltins
     THEN {PointerTo(GetBuiltinType("VectorProjectionIterator")),
           GetBuiltinType("Int32")}
     ELSE IF func \in SorterSortBuiltins
     THEN {PointerTo(GetBuiltinType("Sorter")),
           PointerTo(GetBuiltinType("ThreadStateContainer")),
           GetBuiltinType("Uint32"), GetBuiltinType("Int32")}
     ELSE {})

\* What a read out of bounds can yield at each index beyond the arguments:
\* a value that passes for one of the types, or the end of the process.
Garbage(func, args) ==
    [Len(args)..(MaxArgs - 1) -> ArgTypes(func) \cup {GetBuiltinType("crash")}]

\* The checker visits a call expression of a builtin.
VisitCallExpr ==
    /\ ~sema_out.done
    /\ \E garbage \in Garbage(sema_call.builtin, sema_call.args) :
          LET r == CheckBuiltinCall(sema_call.builtin, sema_call.args, garbage)
          IN  sema_out' = [done |-> TRUE, type |-> r.type, errors |-> r.errors,
                           reads |-> r.reads, status |-> r.status]
    /\ UNCHANGED sema_call

\* A call of one of the names with up to MaxArgs arguments.
SemaInit ==
    /\ SorterInit /\ AggInit /\ JoinInit /\ VMIdle /\ TplIdle /\ MaskIdle /\ VopIdle
    /\ \E func \in FuncNames :
          sema_call \in [builtin : {func},
                         args : UNION {[1..n -> ArgTypes(func)] : n \in 0..MaxArgs}]
    /\ sema_out = [done |-> FALSE]

SemaNext == VisitCallExpr /\ UNCHANGED nonSemaVars

SemaSpec == SemaInit /\ [][SemaNext]_vars

(***************************************************************************)
(* Claims about the sorter.                                                *)
(***************************************************************************)
\* kept holds the Cardinality(kept) smallest tuples of all (ties aside).
AreSmallestOf(kept, all) ==
    /\ kept \subseteq all
    /\ \A x \in kept, y \in all \ kept : cmp_fn(x, y) <= 0

\* t lists every tuple of the set S exactly once.
ListsExactly(t, S) == Range(t) = S /\ Len(t) = Cardinality(S)

\* C1: when every tuple is inserted with AllocInputTupleTopK(k) followed at
\* once by AllocInputTupleTopKFinish(k), then after a Finish the sorter holds
\* exactly min(k, n) of the n inserted tuples, each once, and they are the
\* smallest ones under the comparator.
C1_TopKHeapKeepsSmallest ==
    ~topk_pending =>
        LET t == tuples_[MainSorter]
            all == inserted[MainSorter]
        IN  /\ Len(t) = Min2(top_k, Cardinality(all))
            /\ Cardinality(Range(t)) = Len(t)
            /\ AreSmallestOf(Range(t), all)

\* A Finish on a full heap of three that took the new tuple in and sifted it
\* below the top.
C1_Witness ==
    /\ ~topk_pending
    /\ top_k = 3
    /\ last_call.op = "AllocInputTupleTopKFinish"
    /\ Len(last_call.before) = 4
    /\ \E i \in 2..3 : tuples_[MainSorter][i] = last_call.before[4]

\* C2: after SortParallel on a main sorter that was as constructed, its
\* pointer list is what a serial sort of all the thread-local sorters' tuples
\* yields up to ties: ordered under the comparator, and listing every tuple of
\* the local sorters exactly once.
C2_ParallelSortIsSerialSort ==
    last_call.op = "SortParallel" =>
        /\ IsSortedSeq(tuples_[MainSorter])
        /\ ListsExactly(tuples_[MainSorter], last_call.input)

\* The parallel path over three non-empty local sorters with different keys.
C2_Witness ==
    /\ last_call.op = "SortParallel"
    /\ Cardinality(last_call.input) >= kDefaultMinTuplesForParallelSort
    /\ Cardinality({x.buf[1] : x \in last_call.input}) = 3
    /\ Cardinality({x.key : x \in last_call.input}) = 2

C4_SortTopKParallelKeepsSmallest ==
    last_call.op = "SortTopKParallel" =>
        LET t == tuples_[MainSorter]
        IN  /\ Len(t) = Min2(last_call.arg, Cardinality(last_call.input))
            /\ Cardinality(Range(t)) = Len(t)
            /\ IsSortedSeq(t)
            /\ AreSmallestOf(Range(t), last_call.input)

\* A trim of a parallel sort: more tuples than k, from several sorters.
C4_Witness ==
    /\ last_call.op = "SortTopKParallel"
    /\ last_call.arg = 2
    /\ Cardinality(last_call.input) >= kDefaultMinTuplesForParallelSort
    /\ Cardinality({x.buf[1] : x \in last_call.input}) >= 2
    /\ Cardinality({x.key : x \in last_call.input}) = 2
    /\ Len(tuples_[MainSorter]) = 2


(***************************************************************************)
(* Claims about the aggregation hash table.                                *)
(***************************************************************************)
GroupsOf(k) == {e \in 1..Len(agg_entries_) : agg_entries_[e].payload.key = k}

\* C5: after any sequence of ProcessBatch calls the table holds exactly one
\* group for every key that occurred in the input and none for any other
\* key.
C5_OneGroupPerSeenKey ==
    \A k \in AggKeys :
        Cardinality(GroupsOf(k)) = IF agg_rows[k] > 0 THEN 1 ELSE 0

\* C6: with the count aggregate, the count of every group equals the number
\* of input rows that have the group's key.
C6_GroupCountsItsRows ==
    \A e \in 1..Len(agg_entries_) :
        agg_entries_[e].payload.count = agg_rows[agg_entries_[e].payload.key]


(***************************************************************************)
(* Claims about the join hash table.                                       *)
(***************************************************************************)
\* The entries that Build inserted whose hash and key equal the probe's.
BuildMatches(probe) ==
    {e \in 1..generic_hash_table_.num_elems :
        join_entries_[e].hash = Hash(probe) /\ join_entries_[e].key = probe}

\* C7: during a probe, Lookup followed by NextMatch calls returns only build
\* entries whose hash and key equal the probe's, none of them twice; and
\* when NextMatch has returned null, every such entry has been returned.
C7_ProbeReturnsExactlyTheMatches ==
    lookup.open =>
        /\ Cardinality(Range(lookup.matches)) = Len(lookup.matches)
        /\ Range(lookup.matches) \subseteq BuildMatches(lookup.probe)
        /\ lookup.exhausted => Range(lookup.matches) = BuildMatches(lookup.probe)

\* A finished probe that returned two entries and passed over an entry of
\* the same hash with another key.
C7_Witness ==
    /\ lookup.open /\ lookup.exhausted
    /\ Len(lookup.matches) = 2
    /\ \E e \in 1..generic_hash_table_.num_elems :
          /\ join_entries_[e].hash = lookup.hash_
          /\ join_entries_[e].key # lookup.probe

\* C8: once the table is built it stays built, and no step adds an entry:
\* num_elems and the entry list stay as they were.
C8_NoInsertionAfterBuild ==
    [][built_ => /\ built_'
                 /\ num_elems_' = num_elems_
                 /\ Len(join_entries_') = Len(join_entries_)]_vars


LastJump == module_.instrs[vm_last.instr]
LastJumpOperand == InstrStart(vm_last.instr) + JumpOperandPos(vm_last.op)

\* C11: after JumpIfFalse on a false condition local, or JumpIfTrue on a
\* true one, the ip is the start of the offset operand plus the offset;
\* otherwise the offset operand is consumed and the ip is at the instruction
\* that directly follows.
C11_ConditionalJump ==
    (vm_status = "running" /\ vm_last.op \in {"JumpIfTrue", "JumpIfFalse"}) =>
        LET cond == vm_last.locals[LastJump.cond + 1] # 0
        IN  IF (vm_last.op = "JumpIfTrue") = cond
            THEN Top.ip = LastJumpOperand + LastJump.offset
            ELSE /\ Top.ip = LastJumpOperand + kJmpOffsetSize
                 /\ Top.ip = InstrStart(vm_last.instr + 1)

\* A backward conditional jump was taken, and a conditional jump fell through.
C11_Witness ==
    /\ vm_status = "running"
    /\ vm_last.op = "JumpIfFalse"
    /\ vm_last.locals[LastJump.cond + 1] = 0
    /\ LastJump.offset < 0
    /\ Top.ip = InstrStart(3)

\* C12, as amended: once a Jump whose offset operand is minus the width of
\* an opcode has executed, the bytecode that executes next is that same
\* Jump, and so on for ever: no other instruction is reached.
C12_SelfJumpLoops ==
    /\ [](vm_last.op = "Jump" /\ LastJump.offset = -kOpcodeSize
            => /\ vm_status = "running"
               /\ Top.ip = InstrStart(vm_last.instr)
               /\ READ_OP = Bytecode.Jump)
    /\ [][(vm_last.op = "Jump" /\ LastJump.offset = -kOpcodeSize)
             => (vm_last'.op = "Jump" /\ vm_last'.instr = vm_last.instr
                 /\ vm_status' = "running" /\ frames' = frames)]_vars

\* The Jump to itself has executed and is about to be dispatched again.
C12_Witness ==
    /\ vm_status = "running"
    /\ vm_last.op = "Jump"
    /\ LastJump.offset = -kOpcodeSize
    /\ Top.ip = InstrStart(vm_last.instr)
    /\ READ_OP = Bytecode.Jump

\* C12 as stated: once a Jump whose offset operand is 0 has executed, the
\* bytecode that executes next is that same Jump, and so on for ever.
C12_ZeroOffsetJumpLoops ==
    [][(vm_last.op = "Jump" /\ LastJump.offset = 0)
          => (vm_last'.op = "Jump" /\ vm_last'.instr = vm_last.instr
              /\ vm_status' = "running")]_vars

\* C13: every frame buffer taken from the heap is released when the call
\* that allocated it is left, also when the call is left by the error the
\* debug build raises on an access outside the frame: the buffers that are
\* not released are those of the calls still running.
C13_HeapFramesReleased ==
    vm_status \in {"idle", "running", "done", "threw"} =>
        heap_frames = Cardinality({i \in DOMAIN frames : frames[i].used_heap})

(***************************************************************************)
(* Claims about the executable.                                            *)
(***************************************************************************)
\* C14: a file-mode run whose program fails to parse or to type-check prints
\* the diagnostics and exits with code 2; code 0 is returned only when the
\* program compiled and ran.
C14_CompileErrorExitCode ==
    (tpl_pc = "exited" /\ tpl_args.argc = 2 /\ tpl_args.file.readable) =>
        LET run == tpl_runs[Len(tpl_runs)]
        IN  /\ run.outcome \in {"parse error", "type error"}
                => run.diagnostics /\ tpl_exit = 2
            /\ tpl_exit = 0 => run.outcome = "ran"

\* The programs the lines read so far delimit: each blank line ends one.
RECURSIVE ProgramsOf(_, _)
ProgramsOf(lines, open) ==
    IF lines = <<>> THEN <<>>
    ELSE IF Head(lines) = ""
         THEN <<Append(open, "")>> \o ProgramsOf(Tail(lines), <<>>)
         ELSE ProgramsOf(Tail(lines), Append(open, Head(lines)))

Selected(form, data) ==
    CASE form = "sel" -> {data[i] : i \in 1..Len(data)}
      [] form = "byte" -> {i - 1 : i \in {j \in 1..Len(data) : data[j] # 0}}
      [] form = "bit" -> {i \in 0..(Len(data) * WordBits - 1) :
                             BitAt(data[(i \div WordBits) + 1], i % WordBits) = 1}
      [] OTHER -> {}

\* C16: whatever conversions a mask over n positions has gone through, the
\* vector at hand selects exactly the positions of the original mask (bit i
\* set, byte i non-zero, i listed), no selection index is n or more, and a
\* vector that is back in the original form is the original vector.
C16_MaskRoundTrip ==
    /\ Selected(mask_rep.form, mask_rep.data) = mask_in.set
    /\ mask_rep.form = "sel" =>
          /\ \A i \in 1..Len(mask_rep.data) : mask_rep.data[i] < mask_in.n
          /\ Len(mask_rep.data) = Cardinality(mask_in.set)
    /\ mask_rep.form = "byte" => Len(mask_rep.data) = mask_in.n
    /\ mask_rep.form = mask_in.form =>
          mask_rep.data = MaskAs(mask_in.form, mask_in.n, mask_in.set)

\* A mask with positions in both words, n no multiple of the word or lane
\* width, has gone from bits to bytes to a selection vector and back to
\* bytes.
C16_Witness ==
    /\ mask_in.form = "bit"
    /\ mask_in.n = WordBits + 1
    /\ {0, WordBits} \subseteq mask_in.set
    /\ mask_rep.form = "byte"
    /\ mask_hops = 3

(***************************************************************************)
(* Claims about the vector operations.                                     *)
(***************************************************************************)
\* The SQL value of an element: NULL, or its boolean.
Sql(element) ==
    IF element.null THEN "NULL" ELSE IF element.val THEN "TRUE" ELSE "FALSE"

\* C17: the result of And and Or is that of SQL's three-valued logic in
\* every element: NULL AND FALSE = FALSE, NULL AND TRUE = NULL, NULL AND
\* NULL = NULL, NULL OR TRUE = TRUE, NULL OR FALSE = NULL, NULL OR NULL =
\* NULL, the same with the operands exchanged, and the result of non-NULL
\* operands is their boolean conjunction or disjunction, never NULL.
C17_ThreeValuedLogic ==
    vop_in.op \in {"And", "Or"} /\ vop_out.done =>
       \A i \in 1..Len(vop_in.left) :
          LET l == Sql(vop_in.left[i])
              r == Sql(vop_in.right[i])
              res == Sql(vop_out.result[i])
          IN  /\ vop_in.op = "And" =>
                 /\ <<l, r>> \in {<<"NULL", "FALSE">>, <<"FALSE", "NULL">>} => res = "FALSE"
                 /\ <<l, r>> \in {<<"NULL", "TRUE">>, <<"TRUE", "NULL">>} => res = "NULL"
                 /\ <<l, r>> = <<"NULL", "NULL">> => res = "NULL"
                 /\ "NULL" \notin {l, r} =>
                       res = IF l = "TRUE" /\ r = "TRUE" THEN "TRUE" ELSE "FALSE"
              /\ vop_in.op = "Or" =>
                 /\ <<l, r>> \in {<<"NULL", "TRUE">>, <<"TRUE", "NULL">>} => res = "TRUE"
                 /\ <<l, r>> \in {<<"NULL", "FALSE">>, <<"FALSE", "NULL">>} => res = "NULL"
                 /\ <<l, r>> = <<"NULL", "NULL">> => res = "NULL"
                 /\ "NULL" \notin {l, r} =>
                       res = IF l = "TRUE" \/ r = "TRUE" THEN "TRUE" ELSE "FALSE"

\* An And whose elements include NULL AND FALSE with the NULL's data byte
\* TRUE, and FALSE AND NULL.
C17_Witness ==
    /\ vop_in.op = "And"
    /\ vop_out.done
    /\ Len(vop_in.left) = 2
    /\ vop_in.left[1] = [val |-> TRUE, null |-> TRUE]
    /\ vop_in.right[1] = [val |-> FALSE, null |-> FALSE]
    /\ vop_in.left[2] = [val |-> FALSE, null |-> FALSE]
    /\ vop_in.right[2].null

\* C18: gather+select returns with the list holding exactly the tuples that
\* were in it on entry, whose pointer element and whose constant or
\* right-hand element are both not NULL, and whose gathered value satisfies
\* the comparison against the target; no tuple is added.
C18_GatherSelectNulls ==
    vop_in.op = "GatherAndSelect" /\ vop_out.done =>
       /\ vop_out.status = "returned"
       /\ vop_out.tid_list =
             {i \in vop_in.tid_list :
                 LET target == IF vop_in.form = "constant"
                               THEN vop_in.input[1] ELSE vop_in.input[i]
                 IN  /\ ~vop_in.pointers[i].null
                     /\ ~target.null
                     /\ Op(vop_in.cmp, vop_in.pointers[i].pointee, target.val)}

(***************************************************************************)
(* Claims about ownership in the sorter.                                   *)
(***************************************************************************)
\* The buffers sorter s has handed out from its chunked storage.
Allocated(s) == {<<s, n>> : n \in 0..(num_allocs[s] - 1)}

\* C19: when SortParallel has returned, by the serial fallback or by the
\* parallel path, the storage of every thread-local sorter that was not
\* empty is among the storage the main sorter has adopted and no longer with
\* the local sorter, the pointer list of every thread-local sorter is empty,
\* and the main sorter's pointer list refers to every tuple that was in the
\* thread-local sorters exactly once.
C19_OwnershipTransfer ==
    last_call.op = "SortParallel" =>
        /\ \A l \in LocalSorters :
              /\ tuples_[l] = <<>>
              /\ num_allocs[l] > 0 =>
                    /\ Allocated(l) \subseteq owned_tuples_[MainSorter]
                    /\ tuple_storage_[l] = {}
        /\ \A x \in last_call.input : x.buf \in owned_tuples_[MainSorter]
        /\ Len(tuples_[MainSorter]) = Cardinality(last_call.input)
        /\ \A x \in last_call.input :
              Cardinality({i \in 1..Len(tuples_[MainSorter]) :
                              tuples_[MainSorter][i] = x}) = 1

\* The serial fallback taken with two non-empty thread-local sorters: fewer
\* tuples than the parallel path needs.
C19_Witness ==
    /\ last_call.op = "SortParallel"
    /\ Cardinality({x.buf[1] : x \in last_call.input}) = 2
    /\ Cardinality(last_call.input) < kDefaultMinTuplesForParallelSort
    /\ Cardinality(owned_tuples_[MainSorter]) = 2

(***************************************************************************)
(* Claims about the overflow partitions of the aggregation table.          *)
(***************************************************************************)
\* The overflow list of partition p, from its head along the next pointers.
PartitionList(p) ==
    IF DOMAIN partition_heads_ = {} THEN <<>>
    ELSE Chain(agg_entries_, partition_heads_[p], Len(agg_entries_) + 1)

\* C20: when the InsertPartitioned call that has just returned left
\* num_elements at flush_threshold or more after its insertion, the chains
\* have been drained: the hash directory is empty, every entry inserted so
\* far is once on the overflow list of partition hash >> shift for its own
\* hash and on no other list, and partition_tails[p] is the last entry of
\* list p.
C20_PartitionFlush ==
    agg_last.op = "InsertPartitioned" /\ agg_last.num_elements >= flush_threshold_ =>
       /\ hash_table_.num_elems = 0
       /\ \A slot \in DOMAIN hash_table_.directory :
             hash_table_.directory[slot] = nullentry
       /\ DOMAIN partition_heads_ = 0..(kDefaultNumPartitions - 1)
       /\ \A e \in 1..Len(agg_entries_), p \in 0..(kDefaultNumPartitions - 1) :
             Cardinality({i \in 1..Len(PartitionList(p)) : PartitionList(p)[i] = e})
                = IF p = agg_entries_[e].hash \div (2 ^ (kHashBits - 1)) THEN 1 ELSE 0
       /\ \A p \in 0..(kDefaultNumPartitions - 1) :
             partition_tails_[p] =
                IF PartitionList(p) = <<>> THEN nullentry
                ELSE PartitionList(p)[Len(PartitionList(p))]

\* The second flush of a table has just put entries in front of a list
\* that the first flush had started, and both partitions are in use.
C20_Witness ==
    /\ agg_last.op = "InsertPartitioned"
    /\ agg_last.num_elements >= flush_threshold_
    /\ Len(agg_entries_) = 2 * flush_threshold_
    /\ \E p \in 0..(kDefaultNumPartitions - 1) :
          /\ Len(PartitionList(p)) > flush_threshold_
          /\ partition_tails_[p] <= flush_threshold_
          /\ partition_heads_[p] > flush_threshold_
    /\ \A p \in 0..(kDefaultNumPartitions - 1) : PartitionList(p) # <<>>

(***************************************************************************)
(* Claims about the chains of the hash directory.                          *)
(***************************************************************************)
\* The chain FindChainHead gives for a hash, followed to its end or for one
\* step more than there are entries.
ChainOf(hash) ==
    Chain(agg_entries_, FindChainHead(hash_table_, hash), Len(agg_entries_) + 1)

\* The chain that starts in a slot of the directory.
ChainAt(slot) ==
    Chain(agg_entries_, hash_table_.directory[slot], Len(agg_entries_) + 1)

\* C21: every entry that was inserted is reachable over next pointers from
\* the node FindChainHead gives for its hash, is on exactly one chain and
\* once on it, and every chain ends (is acyclic); this holds after every
\* resize that doubled the directory and linked all entries again.
C21_ChainReachability ==
    /\ \A e \in 1..Len(agg_entries_) :
          /\ \E i \in 1..Len(ChainOf(agg_entries_[e].hash)) :
                ChainOf(agg_entries_[e].hash)[i] = e
          /\ Cardinality({<<slot, i>> \in
                             (DOMAIN hash_table_.directory) \X (1..(Len(agg_entries_) + 1)) :
                                i <= Len(ChainAt(slot)) /\ ChainAt(slot)[i] = e}) = 1
    /\ \A slot \in DOMAIN hash_table_.directory :
          Len(ChainAt(slot)) <= Len(agg_entries_)
    /\ hash_table_.num_elems = Len(agg_entries_)

\* The directory has been doubled twice and a chain of two entries has been
\* linked again by the second resize.
C21_Witness ==
    /\ capacity(hash_table_) = 4 * kDefaultInitialTableSize
    /\ \E slot \in DOMAIN hash_table_.directory : Len(ChainAt(slot)) >= 2
    /\ Len(agg_entries_) >= 3

(***************************************************************************)
(* Claims about the sorted flag of the sorter.                             *)
(***************************************************************************)
\* C25: after a call of Sort, and after a call of SortParallel, IsSorted()
\* is true of the sorter it was called on, whatever the sorter held, an
\* empty sorter included.
C25_SortSetsSorted ==
    last_call.op \in {"Sort", "SortParallel"} => sorted_[last_call.sorter]

\* C26: whenever IsSorted() is true of a sorter its pointer list is
\* non-decreasing under the comparator, under every interleaving of
\* AllocInputTuple and Sort; tuples inserted after a Sort are in order after
\* the next Sort.
C26_SortedFlagMeansSorted ==
    \A s \in Sorters : sorted_[s] => IsSortedSeq(tuples_[s])

(***************************************************************************)
(* Claims about the work packages of the parallel merge.                   *)
(***************************************************************************)
\* The pointer list thread-local sorter l had when SortParallel was called:
\* its tuples in the order of their allocation.
ListBefore(l) ==
    [n \in 1..num_allocs[l] |-> CHOOSE x \in inserted[l] : x.buf = <<l, n - 1>>]

\* The sorters SortParallel collected, and every outcome of their sorts.
Collected == AscendingSeq({l \in LocalSorters : num_allocs[l] > 0})
LocalSorts ==
    SeqProduct([j \in 1..Len(Collected) |-> ips4o_sort(ListBefore(Collected[j]))])

\* The work packages SortParallel builds over the sorted lists src.
MergeWork(src) ==
    LET rows == SplitterRows(src)
        splitters == [i \in 1..Len(rows) |-> Median(rows[i])]
    IN  WorkPackages(src, splitters, 0, [j \in 1..Len(src) |-> 0], 0)

\* The slots of the main pointer list a work package writes.
PackageSize(w) ==
    SumOver([r \in Range(w.input_ranges) |-> r[3] - r[2]], Range(w.input_ranges))
Slice(w) == w.destination..(w.destination + PackageSize(w) - 1)

\* C27: in the parallel merge of SortParallel the destination slices of the
\* work packages are pairwise disjoint and together are exactly the slots
\* [0, num_tuples) of the main pointer list, and every tuple of every local
\* sorter is in the input range of exactly one package.
C27_MergeSlicesPartition ==
    last_call.op = "SortParallel"
    /\ ~UseSerialSort(Len(Collected), Cardinality(last_call.input)) =>
       \A src \in LocalSorts :
          LET work == MergeWork(src)
          IN  /\ \A v, w \in 1..Len(work) :
                    v # w => Slice(work[v]) \cap Slice(work[w]) = {}
              /\ UNION {Slice(work[w]) : w \in 1..Len(work)}
                    = 0..(Cardinality(last_call.input) - 1)
              /\ \A j \in 1..Len(src) : \A i \in 0..(Len(src[j]) - 1) :
                    Cardinality({<<w, r>> \in (1..Len(work)) \X (1..Len(src)) :
                        /\ r <= Len(work[w].input_ranges)
                        /\ work[w].input_ranges[r][1] = j
                        /\ work[w].input_ranges[r][2] <= i
                        /\ i < work[w].input_ranges[r][3]}) = 1

\* A parallel merge over three local sorters whose two work packages both
\* have tuples to merge, the second one from more than one sorter.
C27_Witness ==
    /\ last_call.op = "SortParallel"
    /\ Len(Collected) = 3
    /\ ~UseSerialSort(Len(Collected), Cardinality(last_call.input))
    /\ \E src \in LocalSorts :
          /\ Len(MergeWork(src)) = 2
          /\ PackageSize(MergeWork(src)[1]) > 0
          /\ Len(MergeWork(src)[2].input_ranges) >= 2

(***************************************************************************)
(* Claims about the storage of the sorter in top-k mode.                   *)
(***************************************************************************)
\* C30: under any number of AllocInputTupleTopK / AllocInputTupleTopKFinish
\* pairs with the same k, the sorter's tuple storage never holds more than
\* k + 1 tuple buffers.
C30_TopKStorageBounded ==
    Cardinality(tuple_storage_[MainSorter]) <= top_k + 1


\* C30, amended: under any number of AllocInputTupleTopK /
\* AllocInputTupleTopKFinish pairs with the same k, the pointer list holds
\* at most k + 1 tuples, and at most k once Finish has returned, while the
\* tuple storage holds one buffer for every AllocInputTupleTopK call: the
\* buffer of a discarded or evicted tuple stays in the storage.
C30_TopKPointersBounded ==
    /\ Len(tuples_[MainSorter]) <= top_k + 1
    /\ ~topk_pending => Len(tuples_[MainSorter]) <= top_k
    /\ Cardinality(tuple_storage_[MainSorter]) = num_allocs[MainSorter]
    /\ Range(tuples_[MainSorter]) \subseteq inserted[MainSorter]
    /\ \A x \in inserted[MainSorter] : x.buf \in tuple_storage_[MainSorter]

\* With k = 1, the third pair of calls has returned: three buffers are held
\* for the one tuple that is kept.
C30_Witness ==
    /\ top_k = 1
    /\ ~topk_pending
    /\ last_call.op = "AllocInputTupleTopKFinish"
    /\ num_allocs[MainSorter] = 3
    /\ Cardinality(tuple_storage_[MainSorter]) = 3
    /\ Len(tuples_[MainSorter]) = 1

(***************************************************************************)
(* Claims about the batch lookup of the aggregation table.                 *)
(***************************************************************************)
\* C24: on every table and for every batch, when FollowNextLoop has ended
\* the entry of every probed position is null, and then no entry of the
\* table has the hash and the key of the position's row, or it is an entry
\* whose hash and key equal those of the row; no position keeps a non-null
\* entry that failed the comparison.
C24_FollowNextResult ==
    \A batch \in Batches :
       LET T == [entries |-> agg_entries_, ht |-> hash_table_, max_fill |-> max_fill_]
           looked == LookupBatch(T, batch)
       IN  \A i \in 1..Len(batch) :
              LET entry == looked.entries[i]
                  Matches(e) == /\ agg_entries_[e].hash = looked.hashes[i]
                                /\ keyCheck(agg_entries_[e].payload, batch[i])
              IN  IF entry = nullentry
                  THEN \A e \in 1..Len(agg_entries_) : ~Matches(e)
                  ELSE Matches(entry)


\* C28: under any sequence of Insert and InsertPartitioned calls, an entry
\* that is on an overflow partition list is on no chain of the hash
\* directory: a resize links only the entries of the directory again and
\* leaves the partition lists as the flushes built them.
C28_FlushedStayFlushed ==
    \A e \in 1..Len(agg_entries_) :
       (\E p \in DOMAIN partition_heads_ :
           \E i \in 1..Len(PartitionList(p)) : PartitionList(p)[i] = e)
       => ~(\E slot \in DOMAIN hash_table_.directory :
               \E i \in 1..Len(ChainAt(slot)) : ChainAt(slot)[i] = e)


\* C29: the REPL terminates when its input reaches end-of-file without an
\* exit line.  At the end of input a turn of RunRepl is deterministic
\* (std::getline yields the empty line), so RunRepl returns only if no such
\* turn takes the loop back to where it was: waiting at the prompt with the
\* input ended and no line pending.
C29_ReplEndsAtEndOfInput ==
    [][~(/\ tpl_pc = "repl" /\ tpl_stdin = <<>> /\ tpl_input = <<>>
         /\ tpl_pc' = "repl" /\ tpl_stdin' = <<>> /\ tpl_input' = <<>>)]_vars


(***************************************************************************)
(* Claims about the semantic check of builtin calls.                       *)
(***************************************************************************)
\* The number of arguments a builtin takes.
NumArgs(func) ==
    IF func = "Concat" THEN 3
    ELSE IF func = "TableIterInit" THEN 2
    ELSE IF func \in TableIterBuiltins THEN 1
    ELSE IF func \in {"VPIFree", "VPIIsFiltered", "VPIHasNext", "VPIAdvance",
                      "VPIReset", "VPIGetSelectedRowCount",
                      "VPIGetVectorProjection"} THEN 1
    ELSE IF func \in VPISetBuiltins THEN 3
    ELSE IF func \in VPIBuiltins THEN 2
    ELSE IF func = "SorterSort" THEN 1
    ELSE IF func = "SorterSortParallel" THEN 3
    ELSE 4

\* C22: for every builtin and every argument list, after CheckBuiltinCall
\* either at least one error has been reported or the call expression has a
\* type.
C22_AcceptedCallIsTyped ==
    sema_out.done /\ sema_out.status = "returned" =>
       sema_out.errors > 0 \/ sema_out.type # no_type

\* C23: for every builtin, a call with too few arguments yields a reported
\* error, and the checker reads no argument at an index that is not below
\* the number of arguments supplied.
C23_ArgCountChecked ==
    sema_out.done /\ sema_call.builtin \in Builtins =>
       /\ Len(sema_call.args) < NumArgs(sema_call.builtin) =>
             sema_out.status = "returned" /\ sema_out.errors > 0
       /\ \A index \in sema_out.reads : index < Len(sema_call.args)

=============================================================================
